---- MODULE Spec2Model ----
(***************************************************************************)
(* Game engine of Quiz-Back (app/features/games/services.py) over its     *)
(* SQL tables.  A table is a sequence of rows, a row's id is its index    *)
(* (autoincrement primary key), a null foreign key is 0 and a null pawn   *)
(* coordinate is -1.  A request works on a session: `view` is what the    *)
(* session sees (flushed rows included), `committed` is what every other  *)
(* request sees and what remains when the session is closed.              *)
(***************************************************************************)
EXTENDS Integers, Sequences, FiniteSets, TLC

VARIABLES db, last, inflight, replay, bonus, reads

vars == <<db, last, inflight, replay, bonus, reads>>

\* Cap on the rows of joker_used_in_game (UseJoker is otherwise unbounded).
MaxUsages == 2

\* Cap on the games created in the creation specification.
MaxGames == 2

-----------------------------------------------------------------------------
(* Catalogue tables read by the engine (never written by it).              *)

\* question: id -> theme_id, points.  Themes 1..3 are player themes,
\* 4 and 5 are general themes; theme 3 has a single question.
question ==
  << [theme_id |-> 1, points |-> 1], [theme_id |-> 1, points |-> 2],
     [theme_id |-> 2, points |-> 2], [theme_id |-> 2, points |-> 3],
     [theme_id |-> 3, points |-> 3],
     [theme_id |-> 4, points |-> 1], [theme_id |-> 4, points |-> 2],
     [theme_id |-> 5, points |-> 1] >>

\* joker: id -> name and declared requirements.
joker ==
  << [name |-> "x2",             requires_target_player |-> FALSE, requires_target_grid |-> FALSE],
     [name |-> "All-In",         requires_target_player |-> FALSE, requires_target_grid |-> FALSE],
     [name |-> "Appel à un ami", requires_target_player |-> TRUE,  requires_target_grid |-> FALSE],
     [name |-> "Gamble",         requires_target_player |-> FALSE, requires_target_grid |-> TRUE] >>

EmptyDb ==
  [ game |-> <<>>, player |-> <<>>, round |-> <<>>, grid |-> <<>>,
    joker_in_game |-> <<>>, bonus_in_game |-> <<>>, joker_used_in_game |-> <<>> ]

-----------------------------------------------------------------------------
(* Session and BaseRepository.                                             *)

Session(d) == [committed |-> d, view |-> d]

\* session.commit(): everything flushed so far becomes visible to others.
session_commit(s) == [committed |-> s.view, view |-> s.view]

\* A create that ignores commit=False and commits every row at once.
create_always_commits(s, table, row, commit) ==
  LET v == [s.view EXCEPT ![table] = Append(@, row)]
  IN  [committed |-> v, view |-> v]

\* BaseRepository.create: add + (commit | flush).
create(s, table, row, commit) ==
  LET v == [s.view EXCEPT ![table] = Append(@, row)]
  IN  [committed |-> IF commit THEN v ELSE s.committed, view |-> v]

\* BaseRepository.update: setattr + add + (commit | flush).
update(s, table, id, row, commit) ==
  LET v == [s.view EXCEPT ![table][id] = row]
  IN  [committed |-> IF commit THEN v ELSE s.committed, view |-> v]

\* BaseRepository.get: row by primary key, or None (FALSE here: absent).
exists(d, table, id) == id \in 1..Len(d[table])

Ids(d, table) == 1..Len(d[table])

RECURSIVE create_all(_, _, _)
create_all(s, table, rows) ==
  IF rows = <<>> THEN s
  ELSE create_all(create(s, table, Head(rows), FALSE), table, Tail(rows))

-----------------------------------------------------------------------------
(* random.Random(seed): a deterministic stream of draws fixed by the seed.  *)
(* The generator itself is the standard library's; it is represented by a  *)
(* small congruential generator, the draws being used as CPython uses      *)
(* them (randbelow in shuffle and choice).                                 *)

Random(seed) == seed % 101

randbelow(st, n) ==
  LET nx == (st * 13 + 7) % 101 IN [st |-> nx, v |-> nx % n]

\* random.shuffle: for i in reversed(range(1, len(x))): j = randbelow(i+1); swap.
RECURSIVE shuffle_from(_, _, _)
shuffle_from(x, i, st) ==
  IF i < 2 THEN [x |-> x, st |-> st]
  ELSE LET r == randbelow(st, i)
           j == r.v + 1
       IN  shuffle_from([x EXCEPT ![i] = x[j], ![j] = x[i]], i - 1, r.st)

shuffle(x, st) == shuffle_from(x, Len(x), st)

\* random.choice: seq[randbelow(len(seq))].
choice(x, st) == LET r == randbelow(st, Len(x)) IN [st |-> r.st, v |-> x[r.v + 1]]

-----------------------------------------------------------------------------
(* Small sequence helpers.                                                 *)

Range(x) == {x[i] : i \in DOMAIN x}

Min(S) == CHOOSE m \in S : \A o \in S : m <= o

RECURSIVE sorted(_)
sorted(S) == IF S = {} THEN <<>> ELSE <<Min(S)>> \o sorted(S \ {Min(S)})

RECURSIVE filter_not_in(_, _)
filter_not_in(x, S) ==
  IF x = <<>> THEN <<>>
  ELSE (IF Head(x) \in S THEN <<>> ELSE <<Head(x)>>) \o filter_not_in(Tail(x), S)

-----------------------------------------------------------------------------
(* Queries of the repositories used by the engine.                         *)

\* GameRepository.get_by_url: id of the game with that url, 0 when absent.
get_by_url(d, url) ==
  LET S == {g \in Ids(d, "game") : d.game[g].url = url}
  IN  IF S = {} THEN 0 ELSE Min(S)

\* A listing that forgets the game filter and returns every player.
list_players_any_game(d, game_id) == Ids(d, "player")

\* PlayerRepository.list_by_game: ids of the game's players.
list_players_by_game(d, game_id) ==
  {p \in Ids(d, "player") : d.player[p].game_id = game_id}

\* A pick of the player of highest order.
last_by_order(d, S) ==
  Min({p \in S : \A o \in S : d.player[p].order >= d.player[o].order})

\* The player of lowest order in S (ties, excluded by uq_players_game_order,
\* would go to the lowest id).
first_by_order(d, S) ==
  Min({p \in S : \A o \in S : d.player[p].order <= d.player[o].order})

\* A successor that never wraps around: no player after the last one.
get_next_player_no_wrap(d, game_id, current_order) ==
  LET after == {p \in list_players_by_game(d, game_id) : d.player[p].order > current_order}
  IN  IF after # {} THEN first_by_order(d, after) ELSE 0

\* PlayerRepository.get_next_player_in_game: smallest order > current_order,
\* else the smallest order of the game; 0 when the game has no player.
get_next_player_in_game(d, game_id, current_order) ==
  LET all   == list_players_by_game(d, game_id)
      after == {p \in all : d.player[p].order > current_order}
  IN  IF after # {} THEN first_by_order(d, after)
      ELSE IF all # {} THEN first_by_order(d, all)
      ELSE 0

\* RoundRepository.list_by_game: ids of the rounds whose player is in the game.
list_rounds_by_game(d, game_id) ==
  {r \in Ids(d, "round") : d.player[d.round[r].player_id].game_id = game_id}

\* RoundRepository.get_round_context: the round joined with its player.
get_round_context(d, round_id) ==
  LET r == d.round[round_id]
      p == d.player[r.player_id]
  IN  [round_id |-> round_id, round_number |-> r.round_number,
       player_id |-> r.player_id, player_order |-> p.order,
       player_theme_id |-> p.theme_id, game_id |-> p.game_id]

\* A lookup that never finds the round.
exists_never(d, player_id, round_number) == FALSE

\* RoundRepository.exists_for_player_round_number.
exists_for_player_round_number(d, player_id, round_number) ==
  \E r \in Ids(d, "round") :
     d.round[r].player_id = player_id /\ d.round[r].round_number = round_number

\* Cells of a game; the resolved ones.
list_grids_by_game(d, game_id) ==
  {c \in Ids(d, "grid") : d.grid[c].game_id = game_id}

answered_cells_of(d, game_id) ==
  {c \in list_grids_by_game(d, game_id) : d.grid[c].round_id # 0}

\* RoundRepository.get_last_round_not_in_grid: the round of the game that no
\* cell of the game references, highest round_number (then id) first; 0 if none.
get_last_round_not_in_grid(d, game_id) ==
  LET used == {d.grid[c].round_id : c \in answered_cells_of(d, game_id)}
      free == list_rounds_by_game(d, game_id) \ used
  IN  IF free = {} THEN 0
      ELSE CHOOSE r \in free : \A o \in free :
             \/ d.round[r].round_number > d.round[o].round_number
             \/ (d.round[r].round_number = d.round[o].round_number /\ r >= o)

-----------------------------------------------------------------------------
(* GameService.create_game.                                                *)

\* _load_all_question_ids_for_theme: ids of the theme's questions, ascending.
load_all_question_ids_for_theme(tid) ==
  sorted({q \in DOMAIN question : question[q].theme_id = tid})

\* pool[tid] = shuffled question ids, themes taken in ascending id.
RECURSIVE build_pool(_, _, _)
build_pool(tids, pool, st) ==
  IF tids = <<>> THEN [pool |-> pool, st |-> st]
  ELSE LET r == shuffle(load_all_question_ids_for_theme(Head(tids)), st)
       IN  build_pool(Tail(tids), (Head(tids) :> r.x) @@ pool, r.st)

\* Step 2: `need` pops from each player theme, in the players' order.
RECURSIVE draw_player_questions(_, _, _, _)
draw_player_questions(tids, need, pool, sel) ==
  IF tids = <<>> THEN [ok |-> TRUE, pool |-> pool, sel |-> sel]
  ELSE LET t == Head(tids)
           n == Len(pool[t])
       IN  IF n < need THEN [ok |-> FALSE, pool |-> pool, sel |-> sel]
           ELSE draw_player_questions(
                  Tail(tids), need,
                  [pool EXCEPT ![t] = SubSeq(@, 1, n - need)],
                  sel \o [i \in 1..need |-> pool[t][n + 1 - i]])

\* A step 3 without the fallback: the draw fails as soon as the theme chosen
\* has no question left.
RECURSIVE draw_general_no_fallback(_, _, _, _, _)
draw_general_no_fallback(k, gtids, pool, sel, st) ==
  IF k = 0 THEN [ok |-> TRUE, sel |-> sel, st |-> st]
  ELSE LET c1 == choice(gtids, st)
       IN  IF pool[c1.v] = <<>> THEN [ok |-> FALSE, sel |-> sel, st |-> c1.st]
           ELSE draw_general_no_fallback(
                  k - 1, gtids,
                  [pool EXCEPT ![c1.v] = SubSeq(@, 1, Len(@) - 1)],
                  Append(sel, pool[c1.v][Len(pool[c1.v])]), c1.st)

\* Step 3: one pop per remaining cell from a random general theme, falling
\* back on a random non-empty general theme.
RECURSIVE draw_general_questions(_, _, _, _, _)
draw_general_questions(k, gtids, pool, sel, st) ==
  IF k = 0 THEN [ok |-> TRUE, sel |-> sel, st |-> st]
  ELSE LET c1        == choice(gtids, st)
           non_empty == SelectSeq(gtids, LAMBDA x : pool[x] # <<>>)
           c2        == choice(non_empty, c1.st)
           starved   == pool[c1.v] = <<>>
           tid       == IF starved THEN c2.v ELSE c1.v
           st2       == IF starved THEN c2.st ELSE c1.st
       IN  IF starved /\ non_empty = <<>>
           THEN [ok |-> FALSE, sel |-> sel, st |-> c1.st]
           ELSE draw_general_questions(
                  k - 1, gtids,
                  [pool EXCEPT ![tid] = SubSeq(@, 1, Len(@) - 1)],
                  Append(sel, pool[tid][Len(pool[tid])]), st2)

\* An error closes the session: only what was committed remains.  flag tells
\* whether the session held flushed rows that the rollback discards.
Raise(s, err) == [db |-> s.committed, res |-> err, id |-> 0, flag |-> s.view # s.committed]

\* Steps after the players, jokers and bonus rows are flushed.
create_game_board(s, payload, game_id, player_ids, st0) ==
  LET rows             == payload.rows_number
      cols             == payload.columns_number
      grid_size        == rows * cols
      nb_players       == Len(payload.players)
      need             == payload.number_of_questions_by_player
      general_q_total  == grid_size - nb_players * need
      player_theme_ids == [i \in DOMAIN player_ids |-> s.view.player[player_ids[i]].theme_id]
      general_theme_ids == filter_not_in(payload.general_theme_ids, Range(player_theme_ids))
      needed           == sorted(Range(player_theme_ids) \cup Range(general_theme_ids))
      pl               == build_pool(needed, <<>>, st0)
      dp               == draw_player_questions(player_theme_ids, need, pl.pool, <<>>)
      dg               == draw_general_questions(general_q_total, general_theme_ids,
                                                 dp.pool, <<>>, pl.st)
      coords           == shuffle([k \in 1..grid_size |->
                                     <<(k - 1) \div cols, (k - 1) % cols>>], dg.st)
      all_qids         == shuffle(dp.sel \o dg.sel, coords.st)
      cells            == [k \in 1..grid_size |->
                             [game_id |-> game_id, round_id |-> 0,
                              question_id |-> all_qids.x[k],
                              correct_answer |-> FALSE, skip_answer |-> FALSE,
                              row |-> coords.x[k][1], column |-> coords.x[k][2]]]
      s5               == create_all(s, "grid", cells)
      first_player     == get_next_player_in_game(s5.view, game_id, 0)
      s6               == create(s5, "round",
                                 [player_id |-> first_player, round_number |-> 1], FALSE)
  IN  IF general_q_total < 0 THEN Raise(s, "Conflict")
      ELSE IF payload.general_theme_ids = <<>> THEN Raise(s, "Conflict")
      ELSE IF general_theme_ids = <<>> THEN Raise(s, "Conflict")
      ELSE IF ~dp.ok THEN Raise(s, "Conflict")
      ELSE IF ~dg.ok THEN Raise(s, "Conflict")
      ELSE IF Len(all_qids.x) # grid_size THEN Raise(s, "Conflict")
      ELSE IF first_player = 0 THEN Raise(s5, "Conflict")
      ELSE [db |-> session_commit(s6).committed, res |-> "ok", id |-> game_id, flag |-> FALSE]

\* url is the slug the generation loop ended on, or "exhausted" when ten
\* generated slugs were all taken.
create_game(d, payload, owner_id, url) ==
  LET s0        == Session(d)
      theme_ids == [i \in DOMAIN payload.players |-> payload.players[i].theme_id]
      s1        == create(s0, "game",
                     [owner_id |-> owner_id, seed |-> payload.seed, url |-> url,
                      rows_number |-> payload.rows_number,
                      columns_number |-> payload.columns_number,
                      finished |-> FALSE, with_pawns |-> payload.with_pawns], FALSE)
      game_id   == Len(s1.view.game)
      sh        == shuffle(payload.players, Random(payload.seed))
      base      == Len(s1.view.player)
      s2        == create_all(s1, "player",
                     [i \in DOMAIN sh.x |->
                        [game_id |-> game_id, color_id |-> sh.x[i].color_id,
                         theme_id |-> sh.x[i].theme_id, name |-> sh.x[i].name,
                         order |-> i, pawn_row |-> -1, pawn_col |-> -1]])
      s3        == create_all(s2, "joker_in_game",
                     [i \in DOMAIN payload.joker_ids |->
                        [joker_id |-> payload.joker_ids[i], game_id |-> game_id]])
      s4        == create_all(s3, "bonus_in_game",
                     [i \in DOMAIN payload.bonus_ids |->
                        [bonus_id |-> payload.bonus_ids[i], game_id |-> game_id]])
  IN  IF url = "exhausted" THEN Raise(s0, "Conflict")
      ELSE IF Len(theme_ids) # Cardinality(Range(theme_ids)) THEN Raise(s0, "Conflict")
      ELSE create_game_board(s4, payload, game_id,
                             [i \in DOMAIN sh.x |-> base + i], sh.st)

-----------------------------------------------------------------------------
(* Helpers: auth & ownership, pawn movement.                               *)

\* A check that lets every caller through.
ensure_nobody_refused(d, game_id, user_id, is_admin) == TRUE

\* _ensure_owner_or_admin: TRUE when the caller may act on the game.
ensure_owner_or_admin(d, game_id, user_id, is_admin) ==
  ~((d.game[game_id].owner_id # user_id) /\ (~is_admin))

\* _is_edge_cell.
is_edge_cell(row, col, rows, cols) ==
  row = 0 \/ row = rows - 1 \/ col = 0 \/ col = cols - 1

\* One direction of _get_valid_pawn_moves: the first unanswered cell met,
\* unless another pawn or the border is met first.
RECURSIVE scan_direction(_, _, _, _, _, _, _, _)
scan_direction(nr, nc, dr, dc, rows, cols, answered, others) ==
  IF ~(0 <= nr /\ nr < rows /\ 0 <= nc /\ nc < cols) THEN {}
  ELSE IF <<nr, nc>> \in others THEN {}
  ELSE IF <<nr, nc>> \notin answered THEN {<<nr, nc>>}
  ELSE scan_direction(nr + dr, nc + dc, dr, dc, rows, cols, answered, others)

\* _get_valid_pawn_moves.
get_valid_pawn_moves(player_row, player_col, rows, cols, answered, others) ==
  IF player_row = -1 \/ player_col = -1
  THEN {rc \in (0..rows - 1) \X (0..cols - 1) :
          /\ is_edge_cell(rc[1], rc[2], rows, cols)
          /\ rc \notin answered
          /\ rc \notin others}
  ELSE UNION {scan_direction(player_row + dir[1], player_col + dir[2], dir[1], dir[2],
                             rows, cols, answered, others) :
                dir \in ((-1..1) \X (-1..1)) \ {<<0, 0>>}}

\* _validate_pawn_move: TRUE when the move is legal (or the game has no pawns).
validate_pawn_move(d, game_id, player_id, target_row, target_col) ==
  LET g        == d.game[game_id]
      answered == {<<d.grid[c].row, d.grid[c].column>> : c \in answered_cells_of(d, game_id)}
      others   == {<<d.player[p].pawn_row, d.player[p].pawn_col>> :
                     p \in {q \in list_players_by_game(d, game_id) :
                              q # player_id /\ d.player[q].pawn_row # -1
                                            /\ d.player[q].pawn_col # -1}}
  IN  \/ ~g.with_pawns
      \/ <<target_row, target_col>> \in
           get_valid_pawn_moves(d.player[player_id].pawn_row, d.player[player_id].pawn_col,
                                g.rows_number, g.columns_number, answered, others)

\* PlayerRepository.update_pawn_position (called by answer_question).
update_pawn_position(s, player_id, row, col, commit) ==
  update(s, "player", player_id,
         [s.view.player[player_id] EXCEPT !.pawn_row = row, !.pawn_col = col], commit)

-----------------------------------------------------------------------------
(* Scoring replay: GameService._score_timeline and its helpers.            *)

JOKER_X2 == "x2"

JOKER_ALL_IN == "All-In"

JOKER_GAMBLE == "Gamble"

JOKER_APPEL == "Appel à un ami"

\* GridRepository.list_answered_cells_for_scoring: the played cells of the
\* game, each with its question's points and theme.
list_answered_cells_for_scoring(d, game_id) ==
  {[id |-> c, round_id |-> d.grid[c].round_id,
    correct_answer |-> d.grid[c].correct_answer,
    skip_answer |-> d.grid[c].skip_answer,
    question_points |-> question[d.grid[c].question_id].points,
    question_theme_id |-> question[d.grid[c].question_id].theme_id] :
     c \in {k \in Ids(d, "grid") : d.grid[k].game_id = game_id /\ d.grid[k].round_id > 0}}

\* JokerUsedInGameRepository.list_used_for_game_for_scoring: the usages of
\* the game's joker instances, joined with the round's player and the joker's
\* name.  usage_id is the id of the usage row, which _score_timeline reads.
list_used_for_game_for_scoring(d, game_id) ==
  {[usage_id |-> u, round_id |-> d.joker_used_in_game[u].round_id,
    using_player_id |-> d.round[d.joker_used_in_game[u].round_id].player_id,
    joker_name |-> joker[d.joker_in_game[d.joker_used_in_game[u].joker_in_game_id].joker_id].name,
    target_player_id |-> d.joker_used_in_game[u].target_player_id,
    target_grid_id |-> d.joker_used_in_game[u].target_grid_id] :
     u \in {v \in Ids(d, "joker_used_in_game") :
              /\ d.joker_used_in_game[v].round_id \in Ids(d, "round")
              /\ d.joker_in_game[d.joker_used_in_game[v].joker_in_game_id].game_id = game_id}}

\* _build_round_indexes: round id -> player id, round id -> round number.
round_to_player_id(d, game_id) ==
  [r \in list_rounds_by_game(d, game_id) |-> d.round[r].player_id]

round_to_round_number(d, game_id) ==
  [r \in list_rounds_by_game(d, game_id) |-> d.round[r].round_number]

\* A players_out_min that loses the players' themes.
players_out_no_theme(d, game_id) ==
  [p \in list_players_by_game(d, game_id) |-> 0]

\* players_out_min of _compute_scores: player id -> theme id, from
\* PlayerRepository.list_by_game.
players_out_min(d, game_id) ==
  [p \in list_players_by_game(d, game_id) |-> d.player[p].theme_id]

\* players_out of get_game_results: the players that
\* list_user_games_with_players(owner_id) lists under the game.
players_out_results(d, game_id) ==
  [p \in {q \in Ids(d, "player") :
            /\ d.player[q].game_id = game_id
            /\ d.game[d.player[q].game_id].owner_id = d.game[game_id].owner_id}
     |-> d.player[p].theme_id]

\* An iteration that finds no usage on any round.
iter_round_jokers_none(used_rows, round_id, using_player_id, joker_name) == {}

\* _build_joker_indexes and _iter_round_jokers.
iter_round_jokers(used_rows, round_id, using_player_id, joker_name) ==
  {u \in used_rows : /\ u.round_id = round_id
                     /\ u.using_player_id = using_player_id
                     /\ u.joker_name = joker_name}

\* A test that never sees the joker on the round.
has_round_joker_never(used_rows, round_id, using_player_id, joker_name) == FALSE

has_round_joker(used_rows, round_id, using_player_id, joker_name) ==
  iter_round_jokers(used_rows, round_id, using_player_id, joker_name) # {}

\* An index of the gambles that is never filled.
gambles_by_grid_none(used_rows, grid_id) == {}

gambles_by_grid(used_rows, grid_id) ==
  {u \in used_rows : /\ u.joker_name = JOKER_GAMBLE
                     /\ u.target_grid_id # 0
                     /\ u.target_grid_id = grid_id}

\* A list of called friends that is always empty.
called_nobody(used_rows, round_id, answering_player_id) == {}

called_player_ids_for_round(used_rows, round_id, answering_player_id) ==
  {u.target_player_id :
     u \in {v \in iter_round_jokers(used_rows, round_id, answering_player_id, JOKER_APPEL) :
              v.target_player_id # 0}}

\* A lookup that finds no owner for any theme.
owner_of_theme_none(players_out, theme_id) == 0

\* owner_of_theme: the player whose theme it is, 0 when no player has it
\* (player themes are distinct within a game).
owner_of_theme(players_out, theme_id) ==
  LET S == {p \in DOMAIN players_out : players_out[p] = theme_id}
  IN  IF S = {} THEN 0 ELSE CHOOSE p \in S : TRUE

\* A base rule that charges the theme's owner whatever the answerer's theme.
normal_delta_any_theme(players_out, cell, answering_player_id, owner_id, owner_penalty_blocked, p) ==
  IF ~cell.correct_answer THEN 0
  ELSE (IF p = answering_player_id THEN cell.question_points ELSE 0)
       + (IF owner_id # 0 /\ ~owner_penalty_blocked /\ p = owner_id
          THEN -cell.question_points ELSE 0)

\* "scoring normal": what the base rule gives player p for the cell.
normal_delta(players_out, cell, answering_player_id, owner_id, owner_penalty_blocked, p) ==
  IF ~cell.correct_answer THEN 0
  ELSE (IF p = answering_player_id THEN cell.question_points ELSE 0)
       + (IF /\ players_out[answering_player_id] # cell.question_theme_id
             /\ owner_id # 0 /\ ~owner_penalty_blocked /\ p = owner_id
          THEN -cell.question_points ELSE 0)

\* The body of the main loop for one resolved, non-skipped cell: the net
\* delta of the round for every player.  Each rule adds to the delta, in the
\* order of the code: base rule, x2, All-In, Appel, Gamble.
cell_delta(players_out, used_rows, cell, answering_player_id) ==
  LET points     == cell.question_points
      is_correct == cell.correct_answer
      round_id   == cell.round_id
      called     == called_player_ids_for_round(used_rows, round_id, answering_player_id)
      owner_id   == owner_of_theme(players_out, cell.question_theme_id)
      owner_penalty_blocked == owner_id # 0 /\ owner_id \in called
      normal(p)  == normal_delta(players_out, cell, answering_player_id,
                                 owner_id, owner_penalty_blocked, p)
      x2(p)      == IF has_round_joker(used_rows, round_id, answering_player_id, JOKER_X2)
                    THEN normal(p) ELSE 0
      n_all_in   == Cardinality(iter_round_jokers(used_rows, round_id,
                                                  answering_player_id, JOKER_ALL_IN))
      all_in(p)  == IF is_correct
                    THEN (IF p # answering_player_id THEN -(points * n_all_in) ELSE 0)
                    ELSE (IF p = answering_player_id THEN -(points * n_all_in) ELSE 0)
      n_appel(p) == Cardinality({u \in iter_round_jokers(used_rows, round_id,
                                                         answering_player_id, JOKER_APPEL) :
                                   u.target_player_id = p})
      appel(p)   == IF is_correct THEN points * n_appel(p) ELSE -(points * n_appel(p))
      n_gamble(p) == Cardinality({u \in gambles_by_grid(used_rows, cell.id) :
                                    u.using_player_id = p /\ p # answering_player_id})
      gamble(p)  == IF is_correct THEN points * n_gamble(p) ELSE -(points * n_gamble(p))
  IN  [p \in DOMAIN players_out |-> normal(p) + x2(p) + all_in(p) + appel(p) + gamble(p)]

\* delta[u.target_player_id] raises KeyError when an Appel usage of the round
\* names a player that is not one of the game's players.
cell_key_error(players_out, used_rows, cell, answering_player_id) ==
  \E u \in iter_round_jokers(used_rows, cell.round_id, answering_player_id, JOKER_APPEL) :
     u.target_player_id # 0 /\ u.target_player_id \notin DOMAIN players_out

\* The cells in the order of the history: (round_number, id).
cells_in_order(d, game_id) ==
  LET cells == list_answered_cells_for_scoring(d, game_id)
      rtn   == round_to_round_number(d, game_id)
      rn(c) == IF c.round_id \in DOMAIN rtn THEN rtn[c.round_id] ELSE 1000000000
      ids   == sorted({c.id : c \in cells})
      byid  == [i \in DOMAIN ids |-> CHOOSE c \in cells : c.id = ids[i]]
  IN  SortSeq(byid, LAMBDA a, b : rn(a) < rn(b) \/ (rn(a) = rn(b) /\ a.id < b.id))

\* The sum of f over S, as repeated `+=`.
RECURSIVE sum_over(_, _)
sum_over(f, S) ==
  IF S = {} THEN 0
  ELSE LET x == CHOOSE y \in S : TRUE IN f[x] + sum_over(f, S \ {x})

\* A bonus helper that also counts the losses a player inflicts on itself.
bonus_inflict_loss_self(attacker, victim, pts) == pts

\* bonus_inflict_loss: the points counted as inflicted by attacker and
\* suffered by victim; a self-inflicted loss is ignored.
bonus_inflict_loss(attacker, victim, pts) == IF attacker = victim THEN 0 ELSE pts

\* The calls of bonus_inflict_loss over one non-skipped cell: the points the
\* answering player inflicts on each player (base rule, x2, All-In when
\* correct, Appel when incorrect; a gamble inflicts nothing).
cell_losses(players_out, used_rows, cell, answering_player_id) ==
  LET points     == cell.question_points
      is_correct == cell.correct_answer
      round_id   == cell.round_id
      called     == called_player_ids_for_round(used_rows, round_id, answering_player_id)
      owner_id   == owner_of_theme(players_out, cell.question_theme_id)
      owner_penalty_blocked == owner_id # 0 /\ owner_id \in called
      charged(v) == /\ is_correct
                    /\ players_out[answering_player_id] # cell.question_theme_id
                    /\ owner_id # 0 /\ ~owner_penalty_blocked /\ v = owner_id
      loss(v)    == bonus_inflict_loss(answering_player_id, v, points)
      normal(v)  == IF charged(v) THEN loss(v) ELSE 0
      x2(v)      == IF has_round_joker(used_rows, round_id, answering_player_id, JOKER_X2)
                    THEN normal(v) ELSE 0
      n_all_in   == Cardinality(iter_round_jokers(used_rows, round_id,
                                                  answering_player_id, JOKER_ALL_IN))
      all_in(v)  == IF is_correct /\ v # answering_player_id THEN n_all_in * loss(v) ELSE 0
      n_appel(v) == Cardinality({u \in iter_round_jokers(used_rows, round_id,
                                                         answering_player_id, JOKER_APPEL) :
                                   u.target_player_id = v})
      appel(v)   == IF is_correct THEN 0 ELSE n_appel(v) * loss(v)
  IN  [v \in DOMAIN players_out |-> normal(v) + x2(v) + all_in(v) + appel(v)]

\* The calls of add_joker_delta over one non-skipped cell for the usage u:
\* the points the usage is credited with, per player.
usage_delta(players_out, used_rows, cell, answering_player_id, u) ==
  LET points     == cell.question_points
      is_correct == cell.correct_answer
      round_id   == cell.round_id
      called     == called_player_ids_for_round(used_rows, round_id, answering_player_id)
      owner_id   == owner_of_theme(players_out, cell.question_theme_id)
      owner_penalty_blocked == owner_id # 0 /\ owner_id \in called
      signed     == IF is_correct THEN points ELSE -points
      x2(p)      == IF is_correct /\ u \in iter_round_jokers(used_rows, round_id,
                                                            answering_player_id, JOKER_X2)
                    THEN (IF p = answering_player_id THEN points ELSE 0)
                         + (IF owner_id # 0 /\ ~owner_penalty_blocked /\ p = owner_id
                            THEN -points ELSE 0)
                    ELSE 0
      all_in(p)  == IF u \in iter_round_jokers(used_rows, round_id,
                                               answering_player_id, JOKER_ALL_IN)
                    THEN (IF is_correct
                          THEN (IF p # answering_player_id THEN -points ELSE 0)
                          ELSE (IF p = answering_player_id THEN -points ELSE 0))
                    ELSE 0
      appel(p)   == IF /\ u \in iter_round_jokers(used_rows, round_id,
                                                  answering_player_id, JOKER_APPEL)
                       /\ u.target_player_id = p
                    THEN signed ELSE 0
      gamble(p)  == IF /\ u \in gambles_by_grid(used_rows, cell.id)
                       /\ u.using_player_id # answering_player_id
                       /\ u.using_player_id = p
                    THEN signed ELSE 0
  IN  [p \in DOMAIN players_out |-> x2(p) + all_in(p) + appel(p) + gamble(p)]

\* The state of the replay before the first cell.
ReplayStart(players_out, used_rows, with_bonus_metrics) ==
  LET zero == [p \in DOMAIN players_out |-> 0]
  IN  [pos |-> 0, res |-> "ok",
       scores |-> zero, delta |-> zero,
       round_deltas |-> <<>>, turn_deltas |-> <<>>, turn_cumulatives |-> <<>>,
       joker_impacts |-> [uid \in {u.usage_id : u \in used_rows} |-> zero],
       with_bonus_metrics |-> with_bonus_metrics,
       inflicted_loss |-> zero, suffered_loss |-> zero, attempted_difficulty |-> zero]

\* turn_number of the round of the cell.
turn_number_of(players_out, rtn, cell) ==
  LET nb_players   == Cardinality(DOMAIN players_out)
      round_number == IF cell.round_id \in DOMAIN rtn THEN rtn[cell.round_id] ELSE 1
  IN  ((round_number - 1) \div (IF nb_players > 1 THEN nb_players ELSE 1)) + 1

\* ensure_turn: the turn's delta exists, zero when the turn is new.
ensure_turn(players_out, turn_deltas, turn_number) ==
  IF turn_number \in DOMAIN turn_deltas THEN turn_deltas
  ELSE (turn_number :> [p \in DOMAIN players_out |-> 0]) @@ turn_deltas

\* The iteration on a skipped cell: a zero delta for the round and a snapshot
\* of the turn, nothing else.
skip_cell(players_out, rtn, st, cell) ==
  LET zero == [p \in DOMAIN players_out |-> 0]
      t    == turn_number_of(players_out, rtn, cell)
  IN  [st EXCEPT !.pos = @ + 1, !.delta = zero,
                 !.round_deltas = (cell.round_id :> zero) @@ @,
                 !.turn_deltas = ensure_turn(players_out, @, t),
                 !.turn_cumulatives = (t :> st.scores) @@ @]

\* The iteration on a non-skipped cell: the bonus metrics, the delta of the
\* round applied to the scores and to the turn, the credit of each usage, the
\* round's delta and the turn's snapshot.
apply_cell(players_out, used_rows, rtn, st, cell, answering) ==
  LET delta  == cell_delta(players_out, used_rows, cell, answering)
      losses == cell_losses(players_out, used_rows, cell, answering)
      t      == turn_number_of(players_out, rtn, cell)
      scores == [p \in DOMAIN players_out |-> st.scores[p] + delta[p]]
      turns  == ensure_turn(players_out, st.turn_deltas, t)
      total  == sum_over(losses, DOMAIN players_out)
      wb     == st.with_bonus_metrics
  IN  IF cell_key_error(players_out, used_rows, cell, answering)
      THEN [st EXCEPT !.pos = @ + 1, !.res = "KeyError"]
      ELSE [st EXCEPT !.pos = @ + 1, !.delta = delta, !.scores = scores,
                      !.round_deltas = (cell.round_id :> delta) @@ @,
                      !.turn_deltas = [turns EXCEPT ![t] = [p \in DOMAIN players_out |-> @[p] + delta[p]]],
                      !.turn_cumulatives = (t :> scores) @@ @,
                      !.joker_impacts =
                         [uid \in DOMAIN @ |->
                            LET u == CHOOSE v \in used_rows : v.usage_id = uid
                                d == usage_delta(players_out, used_rows, cell, answering, u)
                            IN  [p \in DOMAIN players_out |-> @[uid][p] + d[p]]],
                      !.attempted_difficulty =
                         IF wb THEN [@ EXCEPT ![answering] = @ + cell.question_points] ELSE @,
                      !.inflicted_loss =
                         IF wb THEN [@ EXCEPT ![answering] = @ + total] ELSE @,
                      !.suffered_loss =
                         IF wb THEN [p \in DOMAIN players_out |-> @[p] + losses[p]] ELSE @]

\* An iteration that scores a skipped cell like any other.
score_cell_counts_skipped(players_out, used_rows, rtp, rtn, st, cell) ==
  LET answering == IF cell.round_id \in DOMAIN rtp THEN rtp[cell.round_id] ELSE 0
  IN  IF answering = 0 THEN [st EXCEPT !.pos = @ + 1]
      ELSE apply_cell(players_out, used_rows, rtn, st, cell, answering)

\* One iteration of the main loop, on `cell`.
score_cell(players_out, used_rows, rtp, rtn, st, cell) ==
  LET answering == IF cell.round_id \in DOMAIN rtp THEN rtp[cell.round_id] ELSE 0
  IN  IF answering = 0 THEN [st EXCEPT !.pos = @ + 1]
      ELSE IF cell.skip_answer THEN skip_cell(players_out, rtn, st, cell)
      ELSE apply_cell(players_out, used_rows, rtn, st, cell, answering)

\* The main loop over the remaining cells; a KeyError ends it.
RECURSIVE score_from(_, _, _, _, _, _)
score_from(players_out, used_rows, rtp, rtn, st, cells) ==
  IF st.res # "ok" \/ cells = <<>> THEN st
  ELSE score_from(players_out, used_rows, rtp, rtn,
                  score_cell(players_out, used_rows, rtp, rtn, st, Head(cells)), Tail(cells))

\* _score_timeline with the history sorted (with_history=True).
score_timeline(d, game_id, players_out, with_bonus_metrics) ==
  score_from(players_out, list_used_for_game_for_scoring(d, game_id),
             round_to_player_id(d, game_id), round_to_round_number(d, game_id),
             ReplayStart(players_out, list_used_for_game_for_scoring(d, game_id),
                         with_bonus_metrics),
             cells_in_order(d, game_id))

\* A last_round_delta that takes the recorded round of smallest number.
first_round_delta(d, game_id, round_deltas) ==
  LET rtn == round_to_round_number(d, game_id)
      rn(r) == IF r \in DOMAIN rtn THEN rtn[r] ELSE 0
  IN  IF DOMAIN round_deltas = {} THEN <<>>
      ELSE LET r0 == CHOOSE r \in DOMAIN round_deltas :
                       \A q \in DOMAIN round_deltas : rn(q) >= rn(r)
           IN  <<[round_id |-> r0, round_number |-> rn(r0), delta |-> round_deltas[r0]]>>

\* last_round_delta of _compute_scores: the delta of the recorded round with
\* the greatest round number (max keeps the first of equal keys; round
\* numbers are distinct within a game), <<>> for None.
last_round_delta(d, game_id, round_deltas) ==
  LET rtn == round_to_round_number(d, game_id)
      rn(r) == IF r \in DOMAIN rtn THEN rtn[r] ELSE 0
  IN  IF DOMAIN round_deltas = {} THEN <<>>
      ELSE LET last_round_id == CHOOSE r \in DOMAIN round_deltas :
                                  \A q \in DOMAIN round_deltas : rn(q) <= rn(r)
           IN  <<[round_id |-> last_round_id, round_number |-> rn(last_round_id),
                  delta |-> round_deltas[last_round_id]]>>

\* _compute_scores: the replay over players_out_min, without bonus metrics,
\* and the delta of the last round.
compute_scores(d, game_id) ==
  LET st == score_timeline(d, game_id, players_out_min(d, game_id), FALSE)
  IN  [last_round_delta |-> last_round_delta(d, game_id, st.round_deltas)] @@ st

-----------------------------------------------------------------------------
(* GameService.get_game_state (board rule and current turn).               *)

\* An end-of-game threshold that counts every cell of the board.
max_rounds_all_cells(d, game_id) == Cardinality(list_grids_by_game(d, game_id))

max_rounds_of(d, game_id) ==
  LET grid_size  == Cardinality(list_grids_by_game(d, game_id))
      nb_players == Cardinality(list_players_by_game(d, game_id))
  IN  (grid_size \div nb_players) * nb_players

get_game_state(d, game_url, user_id, is_admin) ==
  LET s0          == Session(d)
      game_id     == get_by_url(d, game_url)
      nb_players  == Cardinality(list_players_by_game(d, game_id))
      max_rounds  == max_rounds_of(d, game_id)
      answered    == Cardinality(answered_cells_of(d, game_id))
      finished_by_rule == answered >= max_rounds
      s1          == IF finished_by_rule /\ ~d.game[game_id].finished
                     THEN update(s0, "game", game_id,
                                 [d.game[game_id] EXCEPT !.finished = TRUE], TRUE)
                     ELSE s0
      finished    == s1.view.game[game_id].finished
      pending     == get_last_round_not_in_grid(s1.view, game_id)
      current     == IF (~finished) /\ pending # 0
                        /\ s1.view.round[pending].round_number <= max_rounds
                     THEN pending ELSE 0
      sc          == compute_scores(s1.view, game_id)
  IN  IF game_id = 0 THEN [db |-> d, res |-> "NotFound", id |-> 0, flag |-> FALSE]
      ELSE IF ~ensure_owner_or_admin(d, game_id, user_id, is_admin)
      THEN [db |-> d, res |-> "PermissionDenied", id |-> 0, flag |-> FALSE]
      ELSE IF nb_players <= 0 THEN [db |-> d, res |-> "Conflict", id |-> 0, flag |-> FALSE]
      ELSE IF sc.res # "ok"
      THEN [db |-> s1.committed, res |-> sc.res, id |-> 0, flag |-> finished]
      ELSE [db |-> s1.committed, res |-> "ok", id |-> current, flag |-> finished,
            scores |-> sc.scores]

\* BONUS_RANK_POINTS.get(rank, 0).
BONUS_RANK_POINTS(rank) ==
  CASE rank = 1 -> 5 [] rank = 2 -> 3 [] rank = 3 -> 1 [] OTHER -> 0

\* items of _rank_points_from_metric: the player ids in the order of
\* sorted(metric.items(), key=lambda kv: (-kv[1], kv[0])).
rank_items(metric) ==
  SortSeq(sorted(DOMAIN metric),
          LAMBDA a, b : metric[a] > metric[b] \/ (metric[a] = metric[b] /\ a < b))

\* _rank_points_from_metric before its loop; prev_value is <<>> for None.
RankStart(metric) ==
  [metric |-> metric, index |-> 0, rank |-> 0, prev_value |-> <<>>,
   ranking |-> <<>>, points_delta |-> [p \in DOMAIN metric |-> 0]]

\* An iteration that ranks every player by its position.
rank_step_ordinal(st) ==
  LET index == st.index + 1
      pid   == rank_items(st.metric)[index]
      value == st.metric[pid]
  IN  [st EXCEPT !.index = index, !.rank = index, !.prev_value = <<value>>,
                 !.ranking = Append(@, [rank |-> index, player_id |-> pid, value |-> value]),
                 !.points_delta[pid] = @ + BONUS_RANK_POINTS(index)]

\* One iteration of the loop of _rank_points_from_metric.
rank_step(st) ==
  LET index == st.index + 1
      pid   == rank_items(st.metric)[index]
      value == st.metric[pid]
      fresh == st.prev_value = <<>> \/ <<value>> # st.prev_value
      rank  == IF fresh THEN index ELSE st.rank
  IN  [st EXCEPT !.index = index, !.rank = rank,
                 !.prev_value = IF fresh THEN <<value>> ELSE @,
                 !.ranking = Append(@, [rank |-> rank, player_id |-> pid, value |-> value]),
                 !.points_delta[pid] = @ + BONUS_RANK_POINTS(rank)]

\* get_game_state in the steps a concurrent request can fall between.
\* read_begin: the game is loaded, the access is checked and the end
\* condition is computed from the board as it is committed then.
read_begin(d, game_url, user_id, is_admin) ==
  LET game_id == get_by_url(d, game_url)
  IN  IF game_id = 0 THEN [res |-> "NotFound", game_id |-> 0,
                           finished_by_rule |-> FALSE, finished |-> FALSE]
      ELSE IF ~ensure_owner_or_admin(d, game_id, user_id, is_admin)
      THEN [res |-> "PermissionDenied", game_id |-> game_id,
            finished_by_rule |-> FALSE, finished |-> FALSE]
      ELSE IF Cardinality(list_players_by_game(d, game_id)) <= 0
      THEN [res |-> "Conflict", game_id |-> game_id,
            finished_by_rule |-> FALSE, finished |-> FALSE]
      ELSE [res |-> "ok", game_id |-> game_id,
            finished_by_rule |-> Cardinality(answered_cells_of(d, game_id))
                                   >= max_rounds_of(d, game_id),
            finished |-> d.game[game_id].finished]

\* A mark that writes back the opposite of the flag as it is committed.
read_mark_toggles(d, obs) ==
  IF obs.finished_by_rule /\ ~obs.finished
  THEN update(Session(d), "game", obs.game_id,
              [d.game[obs.game_id] EXCEPT !.finished = ~@], TRUE).committed
  ELSE d

\* read_mark: `if finished_by_rule and not game.finished`, on the game as it
\* was loaded: finished is set on the row as it is committed now (the only
\* changed attribute is written) and the change is committed.
read_mark(d, obs) ==
  IF obs.finished_by_rule /\ ~obs.finished
  THEN update(Session(d), "game", obs.game_id,
              [d.game[obs.game_id] EXCEPT !.finished = TRUE], TRUE).committed
  ELSE d

\* read_finish: the current turn and the scores, read after the mark; the
\* game object is refreshed by the mark's commit and is the loaded one
\* otherwise.
read_finish(d, obs) ==
  LET game_id    == obs.game_id
      finished   == obs.finished_by_rule \/ obs.finished
      max_rounds == max_rounds_of(d, game_id)
      pending    == get_last_round_not_in_grid(d, game_id)
      current    == IF (~finished) /\ pending # 0
                       /\ d.round[pending].round_number <= max_rounds
                    THEN pending ELSE 0
      sc         == compute_scores(d, game_id)
  IN  IF obs.res # "ok" THEN [db |-> d, res |-> obs.res, id |-> 0, flag |-> FALSE]
      ELSE IF sc.res # "ok" THEN [db |-> d, res |-> sc.res, id |-> 0, flag |-> finished]
      ELSE [db |-> d, res |-> "ok", id |-> current, flag |-> finished, scores |-> sc.scores]

\* GameService.get_game_results: the access checks and the final scores
\* before bonus (the report is read-only).
get_game_results(d, game_url, user_id, is_admin) ==
  LET game_id == get_by_url(d, game_url)
      sc      == score_timeline(d, game_id, players_out_results(d, game_id), TRUE)
  IN  IF game_id = 0 THEN [db |-> d, res |-> "NotFound", id |-> 0, flag |-> FALSE]
      ELSE IF ~ensure_owner_or_admin(d, game_id, user_id, is_admin)
      THEN [db |-> d, res |-> "PermissionDenied", id |-> 0, flag |-> FALSE]
      ELSE IF list_players_by_game(d, game_id) = {}
      THEN [db |-> d, res |-> "Conflict", id |-> 0, flag |-> FALSE]
      ELSE IF sc.res # "ok"
      THEN [db |-> d, res |-> sc.res, id |-> 0, flag |-> FALSE]
      ELSE [db |-> d, res |-> "ok", id |-> game_id, flag |-> d.game[game_id].finished,
            scores |-> sc.scores]

-----------------------------------------------------------------------------
(* GameService.use_joker.                                                  *)

\* JokerUsedInGameRepository.list_used_joker_in_game_ids_for_player_before_round.
list_used_joker_in_game_ids_for_player_before_round(d, game_id, player_id, round_id) ==
  {d.joker_used_in_game[u].joker_in_game_id :
     u \in {v \in Ids(d, "joker_used_in_game") :
              /\ d.joker_in_game[d.joker_used_in_game[v].joker_in_game_id].game_id = game_id
              /\ d.round[d.joker_used_in_game[v].round_id].player_id = player_id
              /\ d.joker_used_in_game[v].round_id < round_id}}

\* A use_joker that records the usage before looking at the earlier ones.
use_joker_records_first(d, game_url, joker_in_game_id, round_id, target_player_id, target_grid_id, user_id, is_admin) ==
  LET game_id == get_by_url(d, game_url)
      s1      == create(Session(d), "joker_used_in_game",
                        [joker_in_game_id |-> joker_in_game_id, round_id |-> round_id,
                         target_player_id |-> target_player_id,
                         target_grid_id |-> target_grid_id], TRUE)
      fail(s, e) == [db |-> s.committed, res |-> e, id |-> 0, flag |-> FALSE]
  IN  IF game_id = 0 THEN fail(Session(d), "NotFound")
      ELSE IF ~ensure_owner_or_admin(d, game_id, user_id, is_admin)
      THEN fail(Session(d), "PermissionDenied")
      ELSE IF ~exists(d, "joker_in_game", joker_in_game_id) THEN fail(Session(d), "NotFound")
      ELSE IF d.joker_in_game[joker_in_game_id].game_id # game_id THEN fail(Session(d), "NotFound")
      ELSE IF ~exists(d, "round", round_id) THEN fail(Session(d), "NotFound")
      ELSE IF get_round_context(d, round_id).game_id # game_id THEN fail(Session(d), "NotFound")
      ELSE IF joker_in_game_id \in list_used_joker_in_game_ids_for_player_before_round(
                                     d, game_id, get_round_context(d, round_id).player_id, round_id)
      THEN fail(s1, "Conflict")
      ELSE [db |-> s1.committed, res |-> "ok",
            id |-> Len(s1.view.joker_used_in_game), flag |-> FALSE]

use_joker(d, game_url, joker_in_game_id, round_id, target_player_id, target_grid_id, user_id, is_admin) ==
  LET s0      == Session(d)
      game_id == get_by_url(d, game_url)
      ctx     == get_round_context(d, round_id)
      used_before == list_used_joker_in_game_ids_for_player_before_round(
                       d, game_id, ctx.player_id, round_id)
      s1      == create(s0, "joker_used_in_game",
                        [joker_in_game_id |-> joker_in_game_id, round_id |-> round_id,
                         target_player_id |-> target_player_id,
                         target_grid_id |-> target_grid_id], TRUE)
      fail(e) == [db |-> s0.committed, res |-> e, id |-> 0, flag |-> FALSE]
  IN  IF game_id = 0 THEN fail("NotFound")
      ELSE IF ~ensure_owner_or_admin(d, game_id, user_id, is_admin)
      THEN fail("PermissionDenied")
      ELSE IF ~exists(d, "joker_in_game", joker_in_game_id) THEN fail("NotFound")
      ELSE IF d.joker_in_game[joker_in_game_id].game_id # game_id THEN fail("NotFound")
      ELSE IF ~exists(d, "round", round_id) THEN fail("NotFound")
      ELSE IF ctx.game_id # game_id THEN fail("NotFound")
      ELSE IF joker_in_game_id \in used_before THEN fail("Conflict")
      ELSE [db |-> s1.committed, res |-> "ok",
            id |-> Len(s1.view.joker_used_in_game), flag |-> FALSE]

-----------------------------------------------------------------------------
(* GameService.answer_question and _maybe_create_next_round_after_answer.  *)

\* An answer_question without the guard on grid.round_id.
answer_question_overwrites(d, game_url, grid_id, round_id, correct_answer, skip_answer, user_id, is_admin) ==
  LET game_id == get_by_url(d, game_url)
      ctx     == get_round_context(d, round_id)
      s2      == update(Session(d), "grid", grid_id,
                        [d.grid[grid_id] EXCEPT !.round_id = round_id,
                                                !.correct_answer = correct_answer,
                                                !.skip_answer = skip_answer], TRUE)
      fail(e) == [db |-> d, res |-> e, id |-> 0, flag |-> FALSE]
  IN  IF game_id = 0 THEN fail("NotFound")
      ELSE IF ~ensure_owner_or_admin(d, game_id, user_id, is_admin)
      THEN fail("PermissionDenied")
      ELSE IF ~exists(d, "grid", grid_id) THEN fail("NotFound")
      ELSE IF d.grid[grid_id].game_id # game_id THEN fail("NotFound")
      ELSE IF ~exists(d, "round", round_id) THEN fail("NotFound")
      ELSE IF ctx.game_id # game_id THEN fail("NotFound")
      ELSE [db |-> s2.committed, res |-> "ok", id |-> grid_id, flag |-> FALSE]

\* answer_question up to the commit of the cell (grids.update, commit=True).
answer_question(d, game_url, grid_id, round_id, correct_answer, skip_answer, user_id, is_admin) ==
  LET s0      == Session(d)
      game_id == get_by_url(d, game_url)
      grid    == d.grid[grid_id]
      ctx     == get_round_context(d, round_id)
      pawns   == d.game[game_id].with_pawns
      s1      == IF pawns
                 THEN update_pawn_position(s0, ctx.player_id, grid.row, grid.column, FALSE)
                 ELSE s0
      s2      == update(s1, "grid", grid_id,
                        [grid EXCEPT !.round_id = round_id,
                                     !.correct_answer = correct_answer,
                                     !.skip_answer = skip_answer], TRUE)
      fail(s, e) == [db |-> s.committed, res |-> e, id |-> 0, flag |-> FALSE]
  IN  IF game_id = 0 THEN fail(s0, "NotFound")
      ELSE IF ~ensure_owner_or_admin(d, game_id, user_id, is_admin)
      THEN fail(s0, "PermissionDenied")
      ELSE IF ~exists(d, "grid", grid_id) THEN fail(s0, "NotFound")
      ELSE IF grid.game_id # game_id THEN fail(s0, "NotFound")
      ELSE IF grid.round_id # 0 THEN fail(s0, "Conflict")
      ELSE IF ~exists(d, "round", round_id) THEN fail(s0, "NotFound")
      ELSE IF ctx.game_id # game_id THEN fail(s0, "NotFound")
      ELSE IF pawns /\ ~validate_pawn_move(d, game_id, ctx.player_id, grid.row, grid.column)
      THEN fail(s0, "Conflict")
      ELSE [db |-> s2.committed, res |-> "ok", id |-> grid_id, flag |-> FALSE]

\* _maybe_create_next_round_after_answer (rounds.create, commit=True).
maybe_create_next_round_after_answer(d, game_id, just_played_round_id) ==
  LET s0          == Session(d)
      ctx         == get_round_context(d, just_played_round_id)
      next_player == get_next_player_in_game(d, game_id, ctx.player_order)
      next_round_number == ctx.round_number + 1
      s1          == create(s0, "round",
                            [player_id |-> next_player,
                             round_number |-> next_round_number], TRUE)
      none        == [db |-> s0.committed, res |-> "ok", id |-> 0, flag |-> FALSE]
  IN  IF ~exists(d, "round", just_played_round_id) THEN none
      ELSE IF ctx.game_id # game_id THEN none
      ELSE IF next_player = 0 THEN none
      ELSE IF exists_for_player_round_number(d, next_player, next_round_number) THEN none
      ELSE [db |-> s1.committed, res |-> "ok", id |-> Len(s1.view.round), flag |-> FALSE]

-----------------------------------------------------------------------------
(* Requests.                                                               *)

Users == {1, 2}

PlayerNames == <<"A", "B", "C">>

Payload(seed, rows, cols, themes, need, general, jokers, pawns) ==
  [seed |-> seed, rows_number |-> rows, columns_number |-> cols,
   players |-> [i \in DOMAIN themes |->
                  [name |-> PlayerNames[i], color_id |-> i, theme_id |-> themes[i]]],
   number_of_questions_by_player |-> need,
   general_theme_ids |-> general, joker_ids |-> jokers, bonus_ids |-> <<>>,
   with_pawns |-> pawns]

\* The game of another owner that shares the tables with the game played.
OtherGame == Payload(1, 1, 1, <<3>>, 1, <<4>>, <<1>>, FALSE)

\* The games played: two players with the x2 joker on a 1x2 board; two
\* players with pawns on a 1x3 board.
PlayedGames ==
  { Payload(1, 1, 2, <<1, 2>>, 1, <<4>>, <<1>>, FALSE),
    Payload(0, 1, 3, <<1, 2>>, 1, <<4>>, <<>>, TRUE) }

Seeds == {0, 1}

\* Requests to create_game: valid ones and one per way of failing.
CreateRequests ==
  UNION { { Payload(sd, 2, 2, <<1, 2, 3>>, 1, <<4>>, <<>>, FALSE),
            Payload(sd, 1, 2, <<1, 2>>, 1, <<4>>, <<1, 4>>, FALSE),
            Payload(sd, 2, 2, <<1>>, 1, <<4, 5>>, <<2>>, TRUE),
            Payload(sd, 1, 2, <<1, 1>>, 1, <<4>>, <<1>>, FALSE),
            Payload(sd, 1, 1, <<1, 2>>, 1, <<4>>, <<1>>, FALSE),
            Payload(sd, 1, 2, <<1, 2>>, 1, <<1>>, <<1>>, FALSE),
            Payload(sd, 1, 2, <<3>>, 2, <<4>>, <<1>>, FALSE),
            Payload(sd, 2, 2, <<1>>, 1, <<5>>, <<1>>, FALSE) } : sd \in Seeds }

Urls == {"g-a", "g-b", "g-c"}

PlayedUrl == "g-a"

InitDb(p) ==
  create_game(create_game(EmptyDb, OtherGame, 2, "g-b").db, p, 1, PlayedUrl).db

Idle == [game_id |-> 0, round_id |-> 0]

\* No replay is being stepped through.
NoReplay == ReplayStart(<<>>, {}, FALSE)

\* No metric is being ranked.
NoBonus == RankStart(<<>>)

\* The get_game_state requests that run concurrently, and one that is not
\* running.
Readers == {1, 2}

IdleRead ==
  [phase |-> "idle", res |-> "ok", game_id |-> 0, finished_by_rule |-> FALSE, finished |-> FALSE]

NoReads == [r \in Readers |-> IdleRead]

Outcome(op, r) == [op |-> op, res |-> r.res, id |-> r.id, flag |-> r.flag]

\* Identifiers a request may carry: every row of the table and one absent id.
Refs(table) == 1..(Len(db[table]) + 1)

CreateGame(payload, owner_id, url) ==
  /\ Len(db.game) < MaxGames
  /\ inflight = Idle
  /\ url = "exhausted" => db.game # <<>>
  /\ url # "exhausted" => get_by_url(db, url) = 0
  /\ LET r == create_game(db, payload, owner_id, url)
     IN  /\ db' = r.db
         /\ last' = Outcome("create_game", r)
  /\ UNCHANGED <<inflight, replay, bonus, reads>>

GetState(game_url, user_id, is_admin) ==
  /\ LET r == get_game_state(db, game_url, user_id, is_admin)
     IN  /\ db' = r.db
         /\ last' = Outcome("get_game_state", r)
  /\ UNCHANGED <<inflight, replay, bonus, reads>>

GetResults(game_url, user_id, is_admin) ==
  /\ LET r == get_game_results(db, game_url, user_id, is_admin)
     IN  /\ db' = r.db
         /\ last' = Outcome("get_game_results", r)
  /\ UNCHANGED <<inflight, replay, bonus, reads>>

UseJoker(game_url, joker_in_game_id, round_id, target_player_id, target_grid_id, user_id, is_admin) ==
  /\ inflight = Idle
  /\ LET r == use_joker(db, game_url, joker_in_game_id, round_id,
                        target_player_id, target_grid_id, user_id, is_admin)
     IN  /\ r.res = "ok" => Len(db.joker_used_in_game) < MaxUsages
         /\ db' = r.db
         /\ last' = Outcome("use_joker", r)
  /\ UNCHANGED <<inflight, replay, bonus, reads>>

\* answer_question until its first commit; with auto_next_round the request
\* goes on with AdvanceTurn, and no other writer runs in between.
AnswerQuestion(game_url, grid_id, round_id, correct_answer, skip_answer, auto_next_round, user_id, is_admin) ==
  /\ inflight = Idle
  /\ LET r == answer_question(db, game_url, grid_id, round_id, correct_answer,
                              skip_answer, user_id, is_admin)
     IN  /\ db' = r.db
         /\ last' = Outcome("answer_question", r)
         /\ inflight' = IF r.res = "ok" /\ auto_next_round
                        THEN [game_id |-> get_by_url(db, game_url), round_id |-> round_id]
                        ELSE Idle
  /\ UNCHANGED <<replay, bonus, reads>>

\* The rest of answer_question: _maybe_create_next_round_after_answer.
AdvanceTurn ==
  /\ inflight # Idle
  /\ LET r == maybe_create_next_round_after_answer(db, inflight.game_id, inflight.round_id)
     IN  /\ db' = r.db
         /\ last' = Outcome("advance_turn", r)
  /\ inflight' = Idle
  /\ UNCHANGED <<replay, bonus, reads>>

\* The owner of the game played, a stranger, and an administrator.
Callers == {<<1, FALSE>>, <<2, FALSE>>, <<2, TRUE>>}

GameUrls == {PlayedUrl, "g-none"}

\* (url, user, admin) of the requests that are not the owner's on the game
\* played: unknown game, stranger, administrator.
OtherCalls == {<<"g-none", 1, FALSE>>, <<PlayedUrl, 2, FALSE>>, <<PlayedUrl, 2, TRUE>>}

\* (correct_answer, skip_answer) of an answer.
Outcomes == {<<TRUE, FALSE>>, <<FALSE, TRUE>>}

PlayedGameId == get_by_url(db, PlayedUrl)

Init ==
  /\ \E p \in PlayedGames : db = InitDb(p)
  /\ last = [op |-> "create_game", res |-> "ok", id |-> 2, flag |-> FALSE]
  /\ inflight = Idle
  /\ replay = NoReplay
  /\ bonus = NoBonus
  /\ reads = NoReads

Next ==
  \/ \E u \in GameUrls, c \in Callers : GetState(u, c[1], c[2])
  \/ \E u \in GameUrls, c \in Callers : GetResults(u, c[1], c[2])
  \/ \E j \in Refs("joker_in_game"), r \in Refs("round") :
       UseJoker(PlayedUrl, j, r, 0, 0, 1, FALSE)
  \/ \E j \in Refs("joker_in_game"), c \in OtherCalls :
       UseJoker(c[1], j, Len(db.round), 0, 0, c[2], c[3])
  \/ \E g \in Refs("grid"), r \in Refs("round"), o \in Outcomes, auto \in BOOLEAN :
       AnswerQuestion(PlayedUrl, g, r, o[1], o[2], auto, 1, FALSE)
  \/ \E g \in Refs("grid"), c \in OtherCalls :
       AnswerQuestion(c[1], g, Len(db.round), TRUE, FALSE, TRUE, c[2], c[3])
  \/ AdvanceTurn

Spec == Init /\ [][Next]_vars

\* Turn order and end of game: three players on a 2x2 board, played by
\* the owner with correct answers.
TurnGame == Payload(0, 2, 2, <<1, 2, 3>>, 1, <<4>>, <<>>, FALSE)

InitTurn ==
  /\ db = InitDb(TurnGame)
  /\ last = [op |-> "create_game", res |-> "ok", id |-> 2, flag |-> FALSE]
  /\ inflight = Idle
  /\ replay = NoReplay
  /\ bonus = NoBonus
  /\ reads = NoReads

NextTurn ==
  \/ GetState(PlayedUrl, 1, FALSE)
  \/ \E g \in Refs("grid"), r \in Refs("round"), auto \in BOOLEAN :
       AnswerQuestion(PlayedUrl, g, r, TRUE, FALSE, auto, 1, FALSE)
  \/ AdvanceTurn

SpecTurn == InitTurn /\ [][NextTurn]_vars

\* Game creation on its own, from empty tables.
InitCreate ==
  /\ db = EmptyDb
  /\ last = [op |-> "none", res |-> "ok", id |-> 0, flag |-> FALSE]
  /\ inflight = Idle
  /\ replay = NoReplay
  /\ bonus = NoBonus
  /\ reads = NoReads

NextCreate ==
  \E p \in CreateRequests, o \in Users, u \in Urls \cup {"exhausted"} : CreateGame(p, o, u)

SpecCreate == InitCreate /\ [][NextCreate]_vars

\* The scoring replay on its own: three players with the four jokers on a
\* 2x2 board; two rounds are played with up to two joker usages, then the
\* replay is stepped through cell by cell.
ScoreGame == Payload(0, 2, 2, <<1, 2, 3>>, 1, <<4>>, <<1, 2, 3, 4>>, FALSE)

\* (correct_answer, skip_answer) of the answers that are replayed.
ScoreOutcomes == {<<TRUE, FALSE>>, <<FALSE, FALSE>>, <<FALSE, TRUE>>}

\* The joker requests tried on the played rounds r1 and r2, c1 and c2 being
\* the cells answered: (joker_in_game_id, round_id, target_player_id,
\* target_grid_id).  Joker instances, players and cells of the game have the
\* ids 2.. since the other game holds the ids 1.
ScoreUsages(r1, r2, c1, c2) ==
  LET on(r) == << <<2, r, 0, 0>>, <<3, r, 0, 0>>,
                  <<4, r, 1, 0>>, <<4, r, 2, 0>>, <<4, r, 3, 0>>, <<4, r, 4, 0>>,
                  <<5, r, 0, c1>>, <<5, r, 0, c2>> >>
  IN  on(r1) \o on(r2)

\* d after the owner's use_joker requests us, those on round_id only.  The
\* tables between two requests are bound to their value, as each request
\* reads the tables the previous one committed.
RECURSIVE use_jokers(_, _, _)
use_jokers(d, us, round_id) ==
  IF us = <<>> THEN d
  ELSE LET u == Head(us)
       IN  CHOOSE r \in {use_jokers(n, Tail(us), round_id) :
                           n \in {IF u[2] = round_id
                                  THEN use_joker(d, PlayedUrl, u[1], u[2], u[3], u[4], 1, FALSE).db
                                  ELSE d}} : TRUE

\* d after the owner's answer on the cell in the round, with auto_next_round.
answer_and_advance(d, grid_id, round_id, o) ==
  CHOOSE r \in {maybe_create_next_round_after_answer(a, g, round_id).db :
                  a \in {answer_question(d, PlayedUrl, grid_id, round_id, o[1], o[2], 1, FALSE).db},
                  g \in {get_by_url(d, PlayedUrl)}} : TRUE

\* d after its pending round: the joker requests of us on that round, then
\* the answer o on the cell.
PlayedRound(d, us, grid_id, o) ==
  CHOOSE r \in {answer_and_advance(n, grid_id, Len(d.round), o) :
                  n \in {use_jokers(d, us, Len(d.round))}} : TRUE

\* The tables when the game to replay has just been created.
ScoreDb == InitDb(ScoreGame)

\* The game after round 1 (cell c1, outcome o1) and round 2 (cell c2,
\* outcome o2), each joker request being made while its round is pending.
PlayedHistory(c1, o1, c2, o2, us) ==
  CHOOSE r \in {PlayedRound(d1, us, c2, o2) : d1 \in {PlayedRound(ScoreDb, us, c1, o1)}} : TRUE

InitScore ==
  /\ \E c1 \in 2..5, o1 \in ScoreOutcomes, o2 \in ScoreOutcomes :
       LET c2 == IF c1 = 5 THEN 2 ELSE c1 + 1
           U  == ScoreUsages(2, 3, c1, c2)
       IN  \E i \in 0..Len(U), j \in 0..Len(U) :
             /\ (i = 0 => j = 0) /\ j <= i
             /\ db = PlayedHistory(c1, o1, c2, o2,
                       IF i = 0 THEN <<>> ELSE IF j = 0 THEN <<U[i]>> ELSE <<U[j], U[i]>>)
  /\ last = [op |-> "answer_question", res |-> "ok", id |-> 0, flag |-> FALSE]
  /\ inflight = Idle
  /\ \E with_bonus_metrics \in BOOLEAN :
       replay = ReplayStart(IF with_bonus_metrics
                            THEN players_out_results(db, PlayedGameId)
                            ELSE players_out_min(db, PlayedGameId),
                            list_used_for_game_for_scoring(db, PlayedGameId),
                            with_bonus_metrics)
  /\ bonus = NoBonus
  /\ reads = NoReads

\* One iteration of the main loop of _score_timeline, as _compute_scores
\* runs it (no bonus metrics) or as get_game_results runs it (bonus
\* metrics collected).
ScoreCell ==
  /\ replay.res = "ok"
  /\ replay.pos < Len(cells_in_order(db, PlayedGameId))
  /\ replay' = score_cell(IF replay.with_bonus_metrics
                          THEN players_out_results(db, PlayedGameId)
                          ELSE players_out_min(db, PlayedGameId),
                          list_used_for_game_for_scoring(db, PlayedGameId),
                          round_to_player_id(db, PlayedGameId),
                          round_to_round_number(db, PlayedGameId), replay,
                          cells_in_order(db, PlayedGameId)[replay.pos + 1])
  /\ UNCHANGED <<db, last, inflight, bonus, reads>>

NextScore == ScoreCell

SpecScore == InitScore /\ [][NextScore]_vars

\* Reads concurrent with each other and with the writes: the owner's
\* get_game_state requests run in three steps each, between which the other
\* request, get_game_results, use_joker and answer_question (correct
\* answers) run.
ReadBegin(r, game_url, user_id, is_admin) ==
  /\ reads[r].phase = "idle"
  /\ reads' = [reads EXCEPT ![r] =
                 [phase |-> "loaded"] @@ read_begin(db, game_url, user_id, is_admin)]
  /\ UNCHANGED <<db, last, inflight, replay, bonus>>

ReadMark(r) ==
  /\ reads[r].phase = "loaded"
  /\ db' = IF reads[r].res = "ok" THEN read_mark(db, reads[r]) ELSE db
  /\ reads' = [reads EXCEPT ![r].phase = "marked"]
  /\ UNCHANGED <<last, inflight, replay, bonus>>

ReadFinish(r) ==
  /\ reads[r].phase = "marked"
  /\ last' = Outcome("get_game_state", read_finish(db, reads[r]))
  /\ reads' = [reads EXCEPT ![r] = IdleRead]
  /\ UNCHANGED <<db, inflight, replay, bonus>>

ReadGame == Payload(1, 1, 2, <<1, 2>>, 1, <<4>>, <<1>>, FALSE)

InitRead ==
  /\ db = InitDb(ReadGame)
  /\ last = [op |-> "create_game", res |-> "ok", id |-> 2, flag |-> FALSE]
  /\ inflight = Idle
  /\ replay = NoReplay
  /\ bonus = NoBonus
  /\ reads = NoReads

NextRead ==
  \/ \E r \in Readers : ReadBegin(r, PlayedUrl, 1, FALSE)
  \/ \E r \in Readers : ReadMark(r)
  \/ \E r \in Readers : ReadFinish(r)
  \/ GetResults(PlayedUrl, 1, FALSE)
  \/ \E j \in Refs("joker_in_game"), r \in Refs("round") :
       UseJoker(PlayedUrl, j, r, 0, 0, 1, FALSE)
  \/ \E g \in Refs("grid"), r \in Refs("round") :
       AnswerQuestion(PlayedUrl, g, r, TRUE, FALSE, TRUE, 1, FALSE)
  \/ AdvanceTurn

SpecRead == InitRead /\ [][NextRead]_vars

\* The bonus ranking on its own: a metric of five players is ranked, one
\* player per step.
RankPlayers == 1..5

MetricValues == {0, 2, 7, 10}

InitRank ==
  /\ db = ScoreDb
  /\ last = [op |-> "none", res |-> "ok", id |-> 0, flag |-> FALSE]
  /\ inflight = Idle
  /\ replay = NoReplay
  /\ \E metric \in [RankPlayers -> MetricValues] : bonus = RankStart(metric)
  /\ reads = NoReads

RankPlayer ==
  /\ bonus.index < Len(rank_items(bonus.metric))
  /\ bonus' = rank_step(bonus)
  /\ UNCHANGED <<db, last, inflight, replay, reads>>

NextRank == RankPlayer

SpecRank == InitRank /\ [][NextRank]_vars

TypeOK ==
  /\ last.res \in {"ok", "NotFound", "PermissionDenied", "Conflict", "KeyError"}
  /\ \A c \in Ids(db, "grid") : db.grid[c].round_id \in 0..Len(db.round)

-----------------------------------------------------------------------------
(* Properties.                                                             *)

Owner == <<1, FALSE>>

Admin == <<2, TRUE>>

Stranger == <<2, FALSE>>

\* Cells of the game played that are resolved, and the cells bound to a round.
Resolved == {c \in Ids(db, "grid") : db.grid[c].game_id = PlayedGameId /\ db.grid[c].round_id # 0}

CellsOfRound(r) == {c \in Ids(db, "grid") : db.grid[c].round_id = r}

C1_CellKept ==
  \A c \in Ids(db, "grid") : db.grid[c].round_id # 0 => db'.grid[c] = db.grid[c]

C1_ReanswerRefused ==
  \A g \in Resolved, r \in Refs("round"), o \in Outcomes :
    /\ \A c \in {Owner, Admin} :
         LET a == answer_question(db, PlayedUrl, g, r, o[1], o[2], c[1], c[2])
         IN  a.res = "Conflict" /\ a.db = db
    /\ \A u \in GameUrls, c \in Callers :
         answer_question(db, u, g, r, o[1], o[2], c[1], c[2]).res # "ok"

\* C1: write-once resolution.  A step never changes the round_id, the
\* correct_answer or the skip_answer of a cell whose round_id is set, and in
\* every reachable state an answer_question on such a cell succeeds for no
\* caller and raises Conflict for the owner and for an administrator.
C1_WriteOnce == [][C1_CellKept]_vars /\ []C1_ReanswerRefused

\* A resolved cell has just been answered again and the call raised Conflict.
C1_Witness ==
  /\ last.op = "answer_question" /\ last.res = "Conflict"
  /\ Resolved # {}
  /\ \E c \in Resolved : db.grid[c].skip_answer

\* C2: every round is referenced by at most one grid cell (pending: none,
\* resolved: exactly one).
C2_RoundBoundOnce == \A r \in Ids(db, "round") : Cardinality(CellsOfRound(r)) <= 1

\* The player who used a usage row's joker: the player of its round.
UserOf(u) == db.round[db.joker_used_in_game[u].round_id].player_id

\* C3: no player has two joker_used_in_game rows for the same joker_in_game.
C3_JokerOncePerPlayer ==
  \A u, v \in Ids(db, "joker_used_in_game") :
    (/\ db.joker_used_in_game[u].joker_in_game_id = db.joker_used_in_game[v].joker_in_game_id
     /\ UserOf(u) = UserOf(v)) => u = v

\* Players, cells and rounds of the game played.
Players == {p \in Ids(db, "player") : db.player[p].game_id = PlayedGameId}

Cells == {c \in Ids(db, "grid") : db.grid[c].game_id = PlayedGameId}

Rounds == {r \in Ids(db, "round") : db.round[r].player_id \in Players}

\* The player after p in the circular order: the smallest order strictly
\* greater than p's, or the lowest order when p's is the highest.
NextInTurn(p) ==
  LET later == {q \in Players : db.player[q].order > db.player[p].order}
      pick  == IF later # {} THEN later ELSE Players
  IN  CHOOSE q \in pick : \A o \in pick : db.player[q].order <= db.player[o].order

\* The round that AdvanceTurn is about to follow up already has its
\* successor: a round (next player, round_number + 1).
SuccessorExists(r) ==
  \E n \in Ids(db, "round") :
     /\ db.round[n].player_id = NextInTurn(db.round[r].player_id)
     /\ db.round[n].round_number = db.round[r].round_number + 1

AdvanceStep == inflight # Idle /\ inflight' = Idle

RoundKeyUnique ==
  \A r1, r2 \in Ids(db, "round") :
    (/\ db.round[r1].player_id = db.round[r2].player_id
     /\ db.round[r1].round_number = db.round[r2].round_number) => r1 = r2

C4_RetryIsNoop ==
  (AdvanceStep /\ SuccessorExists(inflight.round_id))
    => (db' = db /\ last'.op = "advance_turn" /\ last'.res = "ok" /\ last'.id = 0)

\* C4: turn idempotence.  (player_id, round_number) is unique among the
\* rounds in every reachable state, and an AdvanceTurn after a round whose
\* successor round exists creates nothing and raises nothing.
C4_TurnIdempotent == []RoundKeyUnique /\ [][C4_RetryIsNoop]_vars

\* AdvanceTurn has just run a second time after a round bound to two cells
\* and created nothing.
C4_Witness ==
  /\ last.op = "advance_turn" /\ last.res = "ok" /\ last.id = 0
  /\ \E r \in Rounds : Cardinality(CellsOfRound(r)) >= 2 /\ SuccessorExists(r)

C5_Rotation ==
  \A r \in Rounds :
    db.player[db.round[r].player_id].order
      = ((db.round[r].round_number - 1) % Cardinality(Players)) + 1

C5_AdvanceCreates ==
  (AdvanceStep /\ ~SuccessorExists(inflight.round_id))
    => db'.round = Append(db.round,
                          [player_id |-> NextInTurn(db.round[inflight.round_id].player_id),
                           round_number |-> db.round[inflight.round_id].round_number + 1])

\* C5: AdvanceTurn after round n of the player of order k creates round n+1
\* for the player of the smallest order above k, or of the lowest order when
\* k is the highest; and round n always belongs to the player of order
\* ((n-1) mod N)+1.
C5_CircularOrder == []C5_Rotation /\ [][C5_AdvanceCreates]_vars

\* The turn has wrapped around: round N+1 exists and is the first player's.
C5_Witness ==
  /\ last.op = "advance_turn" /\ last.id # 0
  /\ db.round[last.id].round_number = Cardinality(Players) + 1
  /\ db.player[db.round[last.id].player_id].order = 1
  /\ Cardinality(Players) = 3

\* floor(total_cells / player_count) * player_count.
FullRotations == (Cardinality(Cells) \div Cardinality(Players)) * Cardinality(Players)

\* C6: end-of-game rule.  A successful GetState reports finished = TRUE exactly
\* when the resolved cells number at least floor(cells/players)*players, the
\* persisted flag equals the reported one, and the flag is never persisted
\* below that count; with 4 cells and 3 players the count is 3.
C6_EndOfGame ==
  /\ (last.op = "get_game_state" /\ last.res = "ok")
       => /\ last.flag = (Cardinality(Resolved) >= FullRotations)
          /\ db.game[PlayedGameId].finished = last.flag
          /\ (Cardinality(Cells) = 4 /\ Cardinality(Players) = 3)
               => last.flag = (Cardinality(Resolved) >= 3)
  /\ db.game[PlayedGameId].finished => Cardinality(Resolved) >= FullRotations

\* GetState has just reported the 4-cell, 3-player game finished with exactly
\* three cells resolved.
C6_Witness ==
  /\ last.op = "get_game_state" /\ last.res = "ok" /\ last.flag
  /\ Cardinality(Cells) = 4 /\ Cardinality(Players) = 3
  /\ Cardinality(Resolved) = 3
  /\ db.game[PlayedGameId].finished

\* C7: answer + auto-advance is atomic.  No committed state has the cell of
\* an auto-advance answer resolved while the next player's round is missing.
C7_AnswerAdvanceAtomic ==
  inflight # Idle => SuccessorExists(inflight.round_id)

\* Every row that belongs to a game belongs to a game that exists.
NoOrphanRows ==
  /\ \A p \in Ids(db, "player") : db.player[p].game_id \in Ids(db, "game")
  /\ \A c \in Ids(db, "grid") : db.grid[c].game_id \in Ids(db, "game")
  /\ \A j \in Ids(db, "joker_in_game") : db.joker_in_game[j].game_id \in Ids(db, "game")
  /\ \A b \in Ids(db, "bonus_in_game") : db.bonus_in_game[b].game_id \in Ids(db, "game")
  /\ \A r \in Ids(db, "round") : db.round[r].player_id \in Ids(db, "player")

\* A game is persisted with its whole board, its players and its first round.
GameComplete(g) ==
  LET cells   == {c \in Ids(db, "grid") : db.grid[c].game_id = g}
      players == {p \in Ids(db, "player") : db.player[p].game_id = g}
      rounds  == {r \in Ids(db, "round") : db.round[r].player_id \in players}
  IN  /\ Cardinality(cells) = db.game[g].rows_number * db.game[g].columns_number
      /\ players # {}
      /\ Cardinality(rounds) = 1
      /\ \A r \in rounds : db.round[r].round_number = 1
      /\ ~db.game[g].finished

C8_CreateStep ==
  /\ last'.res # "ok" => db' = db
  /\ (last'.res = "ok" /\ db' # db)
       => /\ Len(db'.game) = Len(db.game) + 1
          /\ last'.id = Len(db'.game)
          /\ \A t \in DOMAIN db : SubSeq(db'[t], 1, Len(db[t])) = db[t]

\* C8: CreateGame is all-or-nothing.  A create_game that raises leaves every
\* table as it was, and every game that is persisted is persisted with all
\* its cells, its players and its first round; no row exists for a game that
\* does not.
C8_AllOrNothing ==
  [][C8_CreateStep]_vars /\ [](NoOrphanRows /\ \A g \in Ids(db, "game") : GameComplete(g))

\* create_game has just raised Conflict after flushing rows, next to a game
\* created earlier.
C8_Witness ==
  /\ last.op = "create_game" /\ last.res = "Conflict" /\ last.flag
  /\ Len(db.game) = 1

\* The joker instance was used by the round's player in a round of smaller id.
UsedEarlier(j, r) ==
  \E u \in Ids(db, "joker_used_in_game") :
     /\ db.joker_used_in_game[u].joker_in_game_id = j
     /\ UserOf(u) = db.round[r].player_id
     /\ db.joker_used_in_game[u].round_id < r

C9_FailureKeepsState ==
  (last'.op \in {"answer_question", "use_joker"} /\ last'.res # "ok")
    => /\ db' = db
       /\ inflight' = inflight
       /\ last'.res \in {"NotFound", "Conflict", "PermissionDenied"}

C9_AnswerErrors ==
  \A g \in Refs("grid"), r \in Refs("round") :
    LET a      == answer_question(db, PlayedUrl, g, r, TRUE, FALSE, 1, FALSE)
        g_ok   == g \in Cells
        r_ok   == r \in Rounds
    IN  /\ a.res # "ok" => a.db = db
        /\ ~g_ok => a.res = "NotFound"
        /\ (g_ok /\ g \in Resolved) => a.res = "Conflict"
        /\ (g_ok /\ g \notin Resolved /\ ~r_ok) => a.res = "NotFound"
        /\ (g_ok /\ g \notin Resolved /\ r_ok)
             => /\ a.res \in {"ok", "Conflict"}
                /\ a.res = "Conflict" => db.game[PlayedGameId].with_pawns
        /\ answer_question(db, "g-none", g, r, TRUE, FALSE, 1, FALSE).res = "NotFound"

C9_JokerErrors ==
  \A j \in Refs("joker_in_game"), r \in Refs("round") :
    LET a    == use_joker(db, PlayedUrl, j, r, 0, 0, 1, FALSE)
        j_ok == j \in Ids(db, "joker_in_game") /\ db.joker_in_game[j].game_id = PlayedGameId
        r_ok == r \in Rounds
    IN  /\ a.res # "ok" => a.db = db
        /\ (~j_ok \/ ~r_ok) => a.res = "NotFound"
        /\ (j_ok /\ r_ok /\ UsedEarlier(j, r)) => a.res = "Conflict"
        /\ (j_ok /\ r_ok /\ ~UsedEarlier(j, r)) => a.res = "ok"
        /\ use_joker(db, "g-none", j, r, 0, 0, 1, FALSE).res = "NotFound"

\* C9: a failing AnswerQuestion or UseJoker raises one typed error and leaves
\* every table unchanged: NotFound for an unknown game and for a cell, round
\* or joker instance that is absent or of another game, Conflict for a
\* resolved cell, an invalid pawn move or a joker the player used in an
\* earlier round.
C9_FailuresAreClean ==
  [][C9_FailureKeepsState]_vars /\ [](C9_AnswerErrors /\ C9_JokerErrors)

\* use_joker has just raised Conflict: the player had used the joker before.
C9_Witness ==
  /\ last.op = "use_joker" /\ last.res = "Conflict"
  /\ db.joker_used_in_game # <<>>
  /\ \E j \in Ids(db, "joker_in_game"), r \in Rounds : UsedEarlier(j, r)

C10_RefusalKeepsState ==
  last'.res = "PermissionDenied" => (db' = db /\ inflight' = inflight)

C10_StrangerRefused ==
  /\ LET a == get_game_state(db, PlayedUrl, Stranger[1], Stranger[2])
     IN  a.res = "PermissionDenied" /\ a.db = db
  /\ LET a == get_game_results(db, PlayedUrl, Stranger[1], Stranger[2])
     IN  a.res = "PermissionDenied" /\ a.db = db
  /\ \A j \in Refs("joker_in_game"), r \in Refs("round") :
       LET a == use_joker(db, PlayedUrl, j, r, 0, 0, Stranger[1], Stranger[2])
       IN  a.res = "PermissionDenied" /\ a.db = db
  /\ \A g \in Refs("grid"), r \in Refs("round"), o \in Outcomes :
       LET a == answer_question(db, PlayedUrl, g, r, o[1], o[2], Stranger[1], Stranger[2])
       IN  a.res = "PermissionDenied" /\ a.db = db

\* C10: GetState, UseJoker, AnswerQuestion and GetResults called by a user
\* who is neither the owner nor an administrator raise PermissionDenied and
\* change no cell, round, joker usage or finished flag.
C10_PermissionFirst ==
  [][C10_RefusalKeepsState]_vars /\ []C10_StrangerRefused

\* A stranger's GetState has just been refused on a game whose end-of-game
\* count is reached and whose finished flag is still unset.
C10_Witness ==
  /\ last.op = "get_game_state" /\ last.res = "PermissionDenied"
  /\ Cardinality(Resolved) >= FullRotations
  /\ ~db.game[PlayedGameId].finished

\* What the claim compares between two generated games: the players' order,
\* the question at every coordinate and the player of round 1.
Layout(d, g) ==
  [order |-> {<<d.player[p].order, d.player[p].name, d.player[p].theme_id>> :
                p \in {q \in Ids(d, "player") : d.player[q].game_id = g}},
   board |-> {<<d.grid[c].row, d.grid[c].column, d.grid[c].question_id>> :
                c \in {k \in Ids(d, "grid") : d.grid[k].game_id = g}},
   first |-> {d.player[d.round[r].player_id].name :
                r \in {k \in Ids(d, "round") :
                         /\ d.round[k].round_number = 1
                         /\ d.player[d.round[k].player_id].game_id = g}}]

\* The same request as p in everything the claim lists, different in the rest.
SameInputs(p) == [p EXCEPT !.joker_ids = <<>>, !.with_pawns = ~@]

\* C11: board generation is deterministic.  Whatever the tables hold, the
\* owner and the url, a create_game that succeeds lays out the same player
\* order, the same question at every (row, column) and the same player for
\* round 1 as a run from empty tables with the same seed, dimensions,
\* players, per-player question count and general themes.
C11_Deterministic ==
  \A p \in CreateRequests, o \in Users, u \in Urls :
    LET a == create_game(db, p, o, u)
        b == create_game(EmptyDb, SameInputs(p), 1, "g-ref")
    IN  a.res = "ok" => /\ b.res = "ok"
                        /\ Layout(a.db, a.id) = Layout(b.db, b.id)
                        /\ Layout(a.db, a.id).first # {}

\* Two games were created from the same seed, dimensions and players, and
\* they have the same layout.
C11_Witness ==
  /\ last.op = "create_game" /\ last.res = "ok"
  /\ Len(db.game) = 2
  /\ db.game[1].seed = db.game[2].seed
  /\ db.game[1].owner_id # db.game[2].owner_id
  /\ Layout(db, 1) = Layout(db, 2)

\* The replay of the game played: the cell a ScoreCell step visits, the
\* cell visited last, and what the tables say about a visited cell c.
Visit == cells_in_order(db, PlayedGameId)[replay.pos + 1]

Visited == cells_in_order(db, PlayedGameId)[replay.pos]

Visiting == replay.res = "ok" /\ replay'.pos = replay.pos + 1

HasVisited == replay.res = "ok" /\ replay.pos >= 1

Answerer(c) == db.round[c.round_id].player_id

OwnTheme(c) == db.player[Answerer(c)].theme_id = c.question_theme_id

\* The player whose theme the cell's question has, 0 for a general theme.
ThemeOwner(c) ==
  LET S == {p \in Players : db.player[p].theme_id = c.question_theme_id}
  IN  IF S = {} THEN 0 ELSE CHOOSE p \in S : TRUE

UsedRows == list_used_for_game_for_scoring(db, PlayedGameId)

\* Usages made on the cell's round; those of one joker; gambles on the cell.
RoundUsages(c) == {u \in UsedRows : u.round_id = c.round_id}

OnRound(c, name) == {u \in RoundUsages(c) : u.joker_name = name}

GamblesOn(c) == {u \in UsedRows : u.joker_name = "Gamble" /\ u.target_grid_id = c.id}

NoJoker(c) == RoundUsages(c) = {} /\ GamblesOn(c) = {}

\* Every friend called on the cell's round is a player of the game.
FriendsInGame(c) ==
  \A u \in OnRound(c, "Appel à un ami") : u.target_player_id \in Players \cup {0}

\* The delta of the cell in the replay of the same history without the
\* usages `without`.
DeltaWithout(c, without) ==
  cell_delta(players_out_min(db, PlayedGameId), UsedRows \ without, c, Answerer(c))

RECURSIVE SumOver(_, _)
SumOver(f, S) ==
  IF S = {} THEN 0
  ELSE LET x == CHOOSE y \in S : TRUE IN f[x] + SumOver(f, S \ {x})

\* C12 as stated: for a correct, non-skipped answer on a cell whose theme is
\* not the answerer's own, with no joker on the round and no gamble on the
\* cell, the deltas of the round sum to zero.
C12_ZeroSum ==
  [][(Visiting /\ Visit.correct_answer /\ ~Visit.skip_answer
        /\ ~OwnTheme(Visit) /\ NoJoker(Visit))
      => SumOver(replay'.delta, Players) = 0]_vars

\* C12 amended: the same when the cell's theme is another player's theme;
\* the answerer gains the cell's value and that player loses it.  For a cell
\* of a general theme, which no player owns, the sum is the cell's value.
C12_ZeroSumOwnedTheme ==
  [][(Visiting /\ Visit.correct_answer /\ ~Visit.skip_answer
        /\ ~OwnTheme(Visit) /\ NoJoker(Visit))
      => IF ThemeOwner(Visit) # 0
         THEN /\ SumOver(replay'.delta, Players) = 0
              /\ replay'.delta[Answerer(Visit)] = Visit.question_points
              /\ replay'.delta[ThemeOwner(Visit)] = -Visit.question_points
         ELSE SumOver(replay'.delta, Players) = Visit.question_points]_vars

\* The replay has just visited a correct answer into another player's theme
\* with no joker involved.
C12_Witness ==
  /\ HasVisited
  /\ Visited.correct_answer /\ ~Visited.skip_answer
  /\ ~OwnTheme(Visited) /\ ThemeOwner(Visited) # 0 /\ NoJoker(Visited)
  /\ replay.delta[Answerer(Visited)] > 0
  /\ SumOver(replay.delta, Players) = 0

\* C13: skip nullifies jokers.  Visiting a skipped cell gives every player a
\* zero delta, recorded as the round's delta, and leaves the cumulative
\* scores as they were, whatever jokers were used on the round and whatever
\* gambles target the cell.
C13_SkipNullifies ==
  [][(Visiting /\ Visit.skip_answer)
      => /\ replay'.res = "ok"
         /\ \A p \in Players : replay'.delta[p] = 0
         /\ replay'.scores = replay.scores
         /\ \A p \in Players : replay'.round_deltas[Visit.round_id][p] = 0]_vars

\* The replay has just visited a skipped cell that a gamble targets and on
\* whose round a joker was used, after a cell that gave points.
C13_Witness ==
  /\ HasVisited /\ replay.pos = 2
  /\ Visited.skip_answer
  /\ \E u \in RoundUsages(Visited) : u.joker_name # "Gamble"
  /\ GamblesOn(Visited) # {}
  /\ \E p \in Players : replay.scores[p] # 0

\* C14: Double effect.  For a correct answer into a theme that is not the
\* answerer's, the replay with the answerer's x2 usage on the round gives,
\* next to the replay of the same history without it, the cell's value once
\* more to the answerer and the base-rule loss once more to the theme's
\* owner, and nothing else to anyone; when x2 is the only joker involved
\* every delta is exactly twice the one without x2.
C14_DoubleEffect ==
  [][(Visiting /\ Visit.correct_answer /\ ~Visit.skip_answer /\ ~OwnTheme(Visit)
        /\ OnRound(Visit, "x2") # {} /\ FriendsInGame(Visit))
      => LET a       == Answerer(Visit)
             o       == ThemeOwner(Visit)
             v       == Visit.question_points
             without == DeltaWithout(Visit, OnRound(Visit, "x2"))
             waived  == \E u \in OnRound(Visit, "Appel à un ami") : u.target_player_id = o
             loss    == IF o # 0 /\ ~waived THEN v ELSE 0
             alone   == RoundUsages(Visit) = OnRound(Visit, "x2") /\ GamblesOn(Visit) = {}
         IN  /\ \A p \in Players :
                  replay'.delta[p] = without[p] + (IF p = a THEN v ELSE 0)
                                                - (IF p = o THEN loss ELSE 0)
             /\ alone => /\ without[a] = v
                         /\ \A p \in Players : replay'.delta[p] = 2 * without[p]]_vars

\* The replay has just visited a correct answer into another player's theme
\* doubled by x2 alone: twice the value gained, twice the value lost.
C14_Witness ==
  /\ HasVisited
  /\ Visited.correct_answer /\ ~Visited.skip_answer
  /\ ~OwnTheme(Visited) /\ ThemeOwner(Visited) # 0
  /\ RoundUsages(Visited) # {} /\ RoundUsages(Visited) = OnRound(Visited, "x2")
  /\ GamblesOn(Visited) = {}
  /\ replay.delta[Answerer(Visited)] = 2 * Visited.question_points
  /\ replay.delta[ThemeOwner(Visited)] = -(2 * Visited.question_points)

\* C15: own-theme base rule.  With no joker on the round and no gamble on the
\* cell, a correct non-skipped answer into the answerer's own theme gives the
\* answerer the cell's value and nobody else anything, and an incorrect
\* answer gives nobody anything.
C15_OwnTheme ==
  [][(Visiting /\ ~Visit.skip_answer /\ NoJoker(Visit))
      => /\ (Visit.correct_answer /\ OwnTheme(Visit))
              => \A p \in Players :
                   replay'.delta[p] = IF p = Answerer(Visit)
                                      THEN Visit.question_points ELSE 0
         /\ ~Visit.correct_answer
              => /\ \A p \in Players : replay'.delta[p] = 0
                 /\ replay'.scores = replay.scores]_vars

\* The replay has just visited a correct answer of a player into their own
\* theme with no joker involved.
C15_Witness ==
  /\ HasVisited
  /\ Visited.correct_answer /\ ~Visited.skip_answer
  /\ OwnTheme(Visited) /\ NoJoker(Visited)
  /\ replay.delta[Answerer(Visited)] = Visited.question_points
  /\ Visited.question_points > 0

\* C16: Gamble effect.  When a cell that a Gamble usage of player C targets
\* is resolved (not skipped) by another player, the gamble adds the cell's
\* value to C's delta of that round if the answer is correct and takes it
\* off if incorrect, and changes nobody else's delta, the answerer's
\* included; when the answerer is C the gamble changes nothing.
C16_GambleEffect ==
  [][(Visiting /\ ~Visit.skip_answer /\ FriendsInGame(Visit))
      => \A u \in GamblesOn(Visit) :
           LET c       == u.using_player_id
               a       == Answerer(Visit)
               v       == Visit.question_points
               stake   == IF Visit.correct_answer THEN v ELSE -v
               without == DeltaWithout(Visit, {u})
           IN  /\ c # a => /\ replay'.delta[c] = without[c] + stake
                           /\ \A p \in Players \ {c} : replay'.delta[p] = without[p]
               /\ c = a => \A p \in Players : replay'.delta[p] = without[p]
               /\ (c # a /\ c # ThemeOwner(Visit)
                     /\ RoundUsages(Visit) = {} /\ GamblesOn(Visit) = {u})
                    => /\ replay'.delta[c] = stake
                       /\ replay'.delta[a] = IF Visit.correct_answer THEN v ELSE 0]_vars

\* The replay has just visited a cell answered incorrectly in round 2 that
\* the player of round 1 had gambled on: the gambler loses the value, the
\* answerer nothing.
C16_Witness ==
  /\ HasVisited /\ replay.pos = 2
  /\ ~Visited.correct_answer /\ ~Visited.skip_answer
  /\ RoundUsages(Visited) = {}
  /\ \E u \in GamblesOn(Visited) :
       /\ GamblesOn(Visited) = {u}
       /\ u.round_id < Visited.round_id
       /\ u.using_player_id # Answerer(Visited)
       /\ replay.delta[u.using_player_id] = -Visited.question_points
  /\ replay.delta[Answerer(Visited)] = 0

\* C17: All-In effect.  On a non-skipped round, an All-In usage of the
\* answerer takes the cell's value off every other player when the answer is
\* correct, on top of the other rules, and off the answerer alone when it is
\* incorrect; with All-In the only joker involved, an incorrect answer leaves
\* every other player's delta at zero.
C17_AllInEffect ==
  [][(Visiting /\ ~Visit.skip_answer /\ FriendsInGame(Visit))
      => \A u \in OnRound(Visit, "All-In") :
           LET a       == Answerer(Visit)
               o       == ThemeOwner(Visit)
               v       == Visit.question_points
               without == DeltaWithout(Visit, {u})
               alone   == RoundUsages(Visit) = {u} /\ GamblesOn(Visit) = {}
           IN  /\ Visit.correct_answer
                    => \A p \in Players :
                         replay'.delta[p] = without[p] - (IF p # a THEN v ELSE 0)
               /\ ~Visit.correct_answer
                    => \A p \in Players :
                         replay'.delta[p] = without[p] - (IF p = a THEN v ELSE 0)
               /\ (alone /\ Visit.correct_answer)
                    => /\ replay'.delta[a] = v
                       /\ \A p \in Players \ {a} :
                            replay'.delta[p] =
                              -v - (IF p = o /\ ~OwnTheme(Visit) THEN v ELSE 0)
               /\ (alone /\ ~Visit.correct_answer)
                    => \A p \in Players :
                         replay'.delta[p] = IF p = a THEN -v ELSE 0]_vars

\* The replay has just visited an incorrect answer with All-In alone: only
\* the answerer loses the value.
C17_Witness ==
  /\ HasVisited
  /\ ~Visited.correct_answer /\ ~Visited.skip_answer
  /\ RoundUsages(Visited) # {} /\ RoundUsages(Visited) = OnRound(Visited, "All-In")
  /\ Cardinality(RoundUsages(Visited)) = 1
  /\ GamblesOn(Visited) = {}
  /\ \A p \in Players :
       replay.delta[p] = IF p = Answerer(Visited) THEN -Visited.question_points ELSE 0

\* C18: Call a Friend effect.  On a non-skipped round, an Appel usage of the
\* answerer naming friend F gives F the cell's value when the answer is
\* correct and takes it off F when incorrect, and changes nobody else's
\* delta; when F owns the cell's theme, the owner's loss of the base rule and
\* of x2 is waived, so that F, called alone on a correct answer into F's
\* theme, gains the value and loses nothing.
C18_FriendEffect ==
  [][(Visiting /\ ~Visit.skip_answer /\ FriendsInGame(Visit))
      => \A u \in OnRound(Visit, "Appel à un ami") :
           u.target_player_id # 0 =>
             LET f       == u.target_player_id
                 a       == Answerer(Visit)
                 v       == Visit.question_points
                 stake   == IF Visit.correct_answer THEN v ELSE -v
                 without == DeltaWithout(Visit, {u})
                 called_again == \E w \in OnRound(Visit, "Appel à un ami") \ {u} :
                                    w.target_player_id = f
                 waived  == IF /\ Visit.correct_answer /\ ~OwnTheme(Visit)
                               /\ f = ThemeOwner(Visit) /\ ~called_again
                            THEN (IF OnRound(Visit, "x2") # {} THEN 2 * v ELSE v)
                            ELSE 0
             IN  /\ replay'.delta[f] = without[f] + stake + waived
                 /\ \A p \in Players \ {f} : replay'.delta[p] = without[p]
                 /\ (f # a /\ RoundUsages(Visit) = {u} /\ GamblesOn(Visit) = {})
                      => /\ replay'.delta[f] = stake
                         /\ replay'.delta[a] = IF Visit.correct_answer THEN v ELSE 0]_vars

\* The replay has just visited a correct answer into the theme of the friend
\* called: the friend gains the value and loses nothing.
C18_Witness ==
  /\ HasVisited
  /\ Visited.correct_answer /\ ~Visited.skip_answer /\ ~OwnTheme(Visited)
  /\ GamblesOn(Visited) = {}
  /\ \E u \in RoundUsages(Visited) :
       /\ RoundUsages(Visited) = {u}
       /\ u.joker_name = "Appel à un ami"
       /\ u.target_player_id = ThemeOwner(Visited)
       /\ replay.delta[u.target_player_id] = Visited.question_points
  /\ replay.delta[Answerer(Visited)] = Visited.question_points

\* What a read may change: nothing but the finished flag of a game.
OnlyFinishedSet(d, e) ==
  /\ [e EXCEPT !.game = d.game] = d
  /\ Len(e.game) = Len(d.game)
  /\ \A g \in Ids(d, "game") :
       /\ [e.game[g] EXCEPT !.finished = d.game[g].finished] = d.game[g]
       /\ d.game[g].finished => e.game[g].finished

C19_ReadsKeepHistory ==
  /\ last'.op = "get_game_results" => db' = db
  /\ last'.op = "get_game_state" => OnlyFinishedSet(db, db')

C19_SameScores ==
  \A c \in {Owner, Admin} :
    LET s1 == get_game_state(db, PlayedUrl, c[1], c[2])
        s2 == get_game_state(s1.db, PlayedUrl, c[1], c[2])
        r1 == get_game_results(db, PlayedUrl, c[1], c[2])
        r2 == get_game_results(s1.db, PlayedUrl, c[1], c[2])
    IN  /\ s1.res = "ok" /\ s2.res = "ok" /\ r1.res = "ok" /\ r2.res = "ok"
        /\ OnlyFinishedSet(db, s1.db) /\ s2.db = s1.db
        /\ r1.db = db /\ r2.db = s1.db
        /\ s2.scores = s1.scores
        /\ r1.scores = s1.scores /\ r2.scores = s1.scores
        /\ DOMAIN s1.scores = Players

C20_UseJokerFrame ==
  [][(last'.op = "use_joker" /\ last'.res = "ok")
      => /\ Len(db'.joker_used_in_game) = Len(db.joker_used_in_game) + 1
         /\ SubSeq(db'.joker_used_in_game, 1, Len(db.joker_used_in_game))
              = db.joker_used_in_game
         /\ [db' EXCEPT !.joker_used_in_game = db.joker_used_in_game] = db
         /\ get_game_state(db', PlayedUrl, 1, FALSE).scores
              = get_game_state(db, PlayedUrl, 1, FALSE).scores]_vars

\* The rank of a metric value under competition ranking: one more than the
\* number of players with a strictly greater value.
CompetitionRank(v) == 1 + Cardinality({q \in DOMAIN bonus.metric : bonus.metric[q] > v})

RankOf(p) == (CHOOSE e \in {bonus.ranking[k] : k \in DOMAIN bonus.ranking} : e.player_id = p).rank

Ranked == {bonus.ranking[k].player_id : k \in DOMAIN bonus.ranking}

\* C21: bonus ranking.  Players are listed by descending metric value; every
\* listed player has the competition rank of its value (equal values share a
\* rank, the next distinct value has the rank of its 1-based position), and
\* has been awarded 5, 3 or 1 points at rank 1, 2 or 3 and 0 otherwise; the
\* metric [10, 10, 7, 7, 2] ends with ranks [1,1,3,3,5] and points
\* [5,5,1,1,0].
C21_BonusRanking ==
  /\ Len(bonus.ranking) = bonus.index
  /\ \A k \in DOMAIN bonus.ranking :
       LET e == bonus.ranking[k]
       IN  /\ e.value = bonus.metric[e.player_id]
           /\ e.rank = CompetitionRank(e.value)
           /\ k > 1 => /\ bonus.ranking[k - 1].value >= e.value
                       /\ bonus.ranking[k - 1].value = e.value => bonus.ranking[k - 1].rank = e.rank
                       /\ bonus.ranking[k - 1].value > e.value => e.rank = k
  /\ \A p \in DOMAIN bonus.metric :
       bonus.points_delta[p] =
         IF p \notin Ranked THEN 0
         ELSE IF RankOf(p) = 1 THEN 5
         ELSE IF RankOf(p) = 2 THEN 3
         ELSE IF RankOf(p) = 3 THEN 1 ELSE 0
  /\ (bonus.metric = <<10, 10, 7, 7, 2>> /\ bonus.index = 5)
       => /\ [p \in RankPlayers |-> RankOf(p)] = <<1, 1, 3, 3, 5>>
          /\ bonus.points_delta = <<5, 5, 1, 1, 0>>

\* The metric [10, 10, 7, 7, 2] has been ranked to the end.
C21_Witness ==
  /\ bonus.metric = <<10, 10, 7, 7, 2>>
  /\ bonus.index = 5

\* The points the answer on cell c and the answerer's jokers take from
\* player v: the owner's penalty of the base rule, once more under x2, the
\* All-In of a correct answer, the Appel of an incorrect one; nothing from the
\* answerer itself and nothing on a skipped cell.
Taken(c, v) ==
  LET waived == \E u \in OnRound(c, "Appel à un ami") : u.target_player_id = ThemeOwner(c)
      charged == c.correct_answer /\ ~OwnTheme(c) /\ ThemeOwner(c) = v /\ ~waived
  IN  IF v = Answerer(c) \/ c.skip_answer THEN 0
      ELSE c.question_points *
             ( (IF charged THEN (IF OnRound(c, "x2") # {} THEN 2 ELSE 1) ELSE 0)
             + (IF c.correct_answer THEN Cardinality(OnRound(c, "All-In")) ELSE 0)
             + (IF c.correct_answer THEN 0
                ELSE Cardinality({u \in OnRound(c, "Appel à un ami") : u.target_player_id = v})) )

C22_MetricsStep ==
  (Visiting /\ replay.with_bonus_metrics /\ replay'.res = "ok") =>
    LET c == Visit
        a == Answerer(c)
    IN  /\ \A v \in Players :
             /\ replay'.suffered_loss[v] = replay.suffered_loss[v] + Taken(c, v)
             /\ replay'.inflicted_loss[v] = replay.inflicted_loss[v]
                  + (IF v = a THEN SumOver([w \in Players |-> Taken(c, w)], Players) ELSE 0)
             /\ replay'.attempted_difficulty[v] = replay.attempted_difficulty[v]
                  + (IF v = a /\ ~c.skip_answer THEN c.question_points ELSE 0)
        /\ (~c.correct_answer /\ OnRound(c, "Appel à un ami") = {})
             => /\ replay'.inflicted_loss = replay.inflicted_loss
                /\ replay'.suffered_loss = replay.suffered_loss

C22_TotalsAgree ==
  SumOver(replay.inflicted_loss, DOMAIN replay.inflicted_loss)
    = SumOver(replay.suffered_loss, DOMAIN replay.suffered_loss)

\* C22: bonus metrics.  Visiting a cell with the bonus metrics on adds to the
\* answerer's inflicted loss the points its answer and jokers take from the
\* other players, adds to each player's suffered loss the points taken from
\* it by the answerer, counts no loss a player inflicts on itself (an
\* incorrect All-In, an incorrect Appel naming the answerer), and adds the
\* cell's points to the answerer's attempt metric for every non-skipped
\* answer, correct or not; total inflicted loss equals total suffered loss.
C22_BonusMetrics == [][C22_MetricsStep]_vars /\ []C22_TotalsAgree

\* After a round that took points from a player, the replay has visited an
\* incorrect answer whose Appel names the answerer itself: the answerer lost
\* points that count as inflicted or suffered by nobody.
C22_Witness ==
  /\ HasVisited /\ replay.with_bonus_metrics /\ replay.pos = 2
  /\ ~Visited.correct_answer /\ ~Visited.skip_answer
  /\ \E u \in OnRound(Visited, "Appel à un ami") : u.target_player_id = Answerer(Visited)
  /\ replay.delta[Answerer(Visited)] < 0
  /\ replay.suffered_loss[Answerer(Visited)] = 0
  /\ replay.attempted_difficulty[Answerer(Visited)] = Visited.question_points
  /\ SumOver(replay.inflicted_loss, Players) > 0

\* A step of a read: a step of a concurrent get_game_state, or a
\* get_game_results.
ReadStep == reads' # reads \/ (last' # last /\ last'.op = "get_game_results")

\* Round uniqueness and joker once-per-player on the tables d.
RoundUnique(d) ==
  \A c1, c2 \in Ids(d, "grid") :
    (d.grid[c1].round_id # 0 /\ d.grid[c1].round_id = d.grid[c2].round_id) => c1 = c2

JokerOnce(d) ==
  \A u, v \in Ids(d, "joker_used_in_game") :
    (/\ d.joker_used_in_game[u].joker_in_game_id = d.joker_used_in_game[v].joker_in_game_id
     /\ d.round[d.joker_used_in_game[u].round_id].player_id
          = d.round[d.joker_used_in_game[v].round_id].player_id) => u = v

\* The successful writes so far: each answer resolved one cell, each joker
\* request added one usage.
WritesDone == Cardinality(Resolved) + Len(db.joker_used_in_game)

\* A read writes nothing but the finished flag of a game, from false to true,
\* and so keeps what holds of the cells, the rounds and the usages.
C23_ReadWrites ==
  ReadStep =>
    /\ \A t \in DOMAIN db \ {"game"} : db'[t] = db[t]
    /\ Len(db'.game) = Len(db.game)
    /\ \A g \in Ids(db, "game") :
         /\ [db'.game[g] EXCEPT !.finished = db.game[g].finished] = db.game[g]
         /\ db'.game[g].finished # db.game[g].finished
              => ~db.game[g].finished /\ db'.game[g].finished
    /\ RoundUnique(db) => RoundUnique(db')
    /\ JokerOnce(db) => JokerOnce(db')

\* A request that saw the end condition leaves the game finished, whatever the
\* other request did in between, and no step clears the flag.
C23_MarkSticks ==
  /\ \A r \in Readers :
       (reads[r].phase = "loaded" /\ reads'[r].phase = "marked"
          /\ reads[r].res = "ok" /\ reads[r].finished_by_rule)
       => db'.game[reads[r].game_id].finished
  /\ \A g \in Ids(db, "game") : db.game[g].finished => db'.game[g].finished

C23_AfterMarks ==
  /\ \A r \in Readers :
       (reads[r].phase = "marked" /\ reads[r].res = "ok" /\ reads[r].finished_by_rule)
       => db.game[reads[r].game_id].finished
  /\ WritesDone <= 1 => RoundUnique(db) /\ JokerOnce(db)

FreshBoard(d, g, need) ==
  LET cells   == {c \in Ids(d, "grid") : d.grid[c].game_id = g}
      players == {p \in Ids(d, "player") : d.player[p].game_id = g}
      rounds  == {r \in Ids(d, "round") : d.round[r].player_id \in players}
      rows    == d.game[g].rows_number
      cols    == d.game[g].columns_number
  IN  /\ Cardinality(cells) = rows * cols
      /\ {<<d.grid[c].row, d.grid[c].column>> : c \in cells} = (0..(rows - 1)) \X (0..(cols - 1))
      /\ \A c \in cells :
           d.grid[c].round_id = 0 /\ ~d.grid[c].correct_answer /\ ~d.grid[c].skip_answer
      /\ \A c1, c2 \in cells : d.grid[c1].question_id = d.grid[c2].question_id => c1 = c2
      /\ \A p \in players :
           Cardinality({c \in cells :
                          question[d.grid[c].question_id].theme_id = d.player[p].theme_id}) = need
      /\ Cardinality(rounds) = 1
      /\ \A r \in rounds :
           /\ d.round[r].round_number = 1
           /\ d.player[d.round[r].player_id].order = 1
           /\ \A c \in Ids(d, "grid") : d.grid[c].round_id # r

\* C24: a successful create_game yields a board with exactly rows x columns
\* cells, one per coordinate, all unanswered, no question on two cells,
\* exactly number_of_questions_by_player cells of each player's theme, and
\* exactly one round: round_number 1, pending, of the player of order 1.
C24_FreshGame ==
  [][\A p \in CreateRequests, o \in Users, u \in Urls :
       (/\ last'.op = "create_game" /\ last'.res = "ok" /\ db' # db
        /\ create_game(db, p, o, u).res = "ok"
        /\ db' = create_game(db, p, o, u).db)
       => FreshBoard(db', last'.id, p.number_of_questions_by_player)]_vars

\* A game of three players on a 2x2 board has just been created next to an
\* earlier game: three cells of player themes, one of a general theme.
C24_Witness ==
  /\ last.op = "create_game" /\ last.res = "ok" /\ last.id = 2
  /\ Cardinality({p \in Ids(db, "player") : db.player[p].game_id = 2}) = 3
  /\ Cardinality({c \in Ids(db, "grid") : db.grid[c].game_id = 2}) = 4
  /\ FreshBoard(db, 2, 1)

\* What a request asks of the question bank: the themes of its players, its
\* general themes without those, the questions a theme has, and the cells
\* left to the general themes.
PlayerThemes(p) == {p.players[i].theme_id : i \in DOMAIN p.players}

GeneralThemes(p) == {p.general_theme_ids[i] : i \in DOMAIN p.general_theme_ids} \ PlayerThemes(p)

Supply(T) == Cardinality({q \in DOMAIN question : question[q].theme_id \in T})

GeneralCells(p) ==
  p.rows_number * p.columns_number - Len(p.players) * p.number_of_questions_by_player

EnoughQuestions(p) ==
  /\ Supply(GeneralThemes(p)) >= GeneralCells(p)
  /\ \A t \in PlayerThemes(p) : Supply({t}) >= p.number_of_questions_by_player

\* The checks create_game makes before it fills the board: distinct player
\* themes, a grid that holds the players' questions, a general theme left.
PassesEarlierChecks(p) ==
  /\ Cardinality(PlayerThemes(p)) = Len(p.players)
  /\ GeneralCells(p) >= 0
  /\ GeneralThemes(p) # {}

\* The step is the create_game of request p by owner o under url u.
CreateStepOf(p, o, u) ==
  /\ Len(db.game) < MaxGames /\ get_by_url(db, u) = 0
  /\ db' = create_game(db, p, o, u).db
  /\ last' = Outcome("create_game", create_game(db, p, o, u))

Gambles == {u \in UsedRows : u.joker_name = "Gamble"}

Signed(c) == IF c.correct_answer THEN c.question_points ELSE -c.question_points

\* Visiting the cell of the round a gamble was used on leaves that round's
\* delta and the cumulative scores as without the gamble; visiting the cell
\* the gamble targets gives the gambler the cell's points, signed by the
\* answer, on top of the delta without the gamble.
C26_GambleStep ==
  (Visiting /\ replay'.res = "ok" /\ ~Visit.skip_answer) =>
    \A u \in Gambles :
      /\ (u.round_id = Visit.round_id /\ u.target_grid_id # Visit.id)
           => /\ replay'.delta = DeltaWithout(Visit, {u})
              /\ \A p \in Players :
                   replay'.scores[p] = replay.scores[p] + DeltaWithout(Visit, {u})[p]
      /\ (u.target_grid_id = Visit.id /\ u.using_player_id # Answerer(Visit))
           => replay'.delta[u.using_player_id]
                = DeltaWithout(Visit, {u})[u.using_player_id] + Signed(Visit)

\* When the replay is over, lastRoundDelta is the delta of the round visited
\* last, the one of greatest round number.
C26_LastRound ==
  (replay.res = "ok" /\ replay.pos >= 1
     /\ replay.pos = Len(cells_in_order(db, PlayedGameId)))
  => LET l == compute_scores(db, PlayedGameId).last_round_delta
     IN  /\ l # <<>>
         /\ l[1].round_id = Visited.round_id
         /\ l[1].round_number = db.round[Visited.round_id].round_number
         /\ \A r \in Ids(db, "round") :
              (\E c \in Resolved : db.grid[c].round_id = r)
                => db.round[r].round_number <= l[1].round_number
         /\ l[1].delta = replay.delta

\* C26: gamble timing.  The points of a Gamble usage are applied when the
\* replay visits the targeted cell, not the round the joker was used on: the
\* delta and the cumulative scores of the usage round are those without the
\* gamble, the gamble's points are in the delta of the resolving round, and
\* lastRoundDelta is that delta when the resolving round is the most recent.
C26_GambleTiming == [][C26_GambleStep]_vars /\ []C26_LastRound

\* The replay is over: a gamble used on round 1 targets the cell another
\* player answered in round 2, and its points are in the delta of round 2,
\* which lastRoundDelta reports.
C26_Witness ==
  /\ HasVisited /\ replay.pos = 2 /\ ~Visited.skip_answer
  /\ \E u \in Gambles :
       /\ u.round_id # Visited.round_id
       /\ db.round[u.round_id].round_number = 1
       /\ u.target_grid_id = Visited.id
       /\ u.using_player_id # Answerer(Visited)
       /\ replay.delta[u.using_player_id] = Signed(Visited)
  /\ compute_scores(db, PlayedGameId).last_round_delta[1].delta = replay.delta
  /\ compute_scores(db, PlayedGameId).last_round_delta[1].round_number = 2

\* The history get_game_results replays for the game played.
History == score_timeline(db, PlayedGameId, players_out_results(db, PlayedGameId), TRUE)

\* C27: the replay's history is consistent with the final scores.  Each
\* player's cumulative score is the sum of the player's recorded round deltas,
\* the snapshot of turn t is the sum of the turn deltas up to t, and the
\* snapshot of the last turn is the final scores.
C27_HistoryConsistent ==
  LET h == History
      R == DOMAIN h.round_deltas
      T == DOMAIN h.turn_cumulatives
  IN  h.res = "ok" =>
        /\ \A p \in DOMAIN h.scores :
             h.scores[p] = SumOver([r \in R |-> h.round_deltas[r][p]], R)
        /\ T = DOMAIN h.turn_deltas
        /\ \A t \in T, p \in DOMAIN h.scores :
             h.turn_cumulatives[t][p]
               = SumOver([k \in T |-> IF k <= t THEN h.turn_deltas[k][p] ELSE 0], T)
        /\ \A t \in T : (\A k \in T : k <= t) => h.turn_cumulatives[t] = h.scores

\* What the visit of a cell credits each joker usage with, per player.
Credited(u, p) == replay'.joker_impacts[u.usage_id][p] - replay.joker_impacts[u.usage_id][p]

\* C28: the per-usage attribution is an exact audit trail.  For every visited
\* non-skipped cell and every player, the round's delta is the delta of the
\* base rule (the same cell replayed with no joker usage) plus the points the
\* visit credits the joker usages with for that player; and an x2 alone on a
\* correct answer to the answerer's own theme is credited with +points for the
\* answerer and nothing for anyone else.
C28_AuditTrail ==
  [][(Visiting /\ replay'.res = "ok" /\ ~Visit.skip_answer) =>
       /\ \A p \in Players :
            replay'.delta[p]
              = DeltaWithout(Visit, UsedRows)[p]
                + SumOver([uid \in DOMAIN replay.joker_impacts |->
                             replay'.joker_impacts[uid][p] - replay.joker_impacts[uid][p]],
                          DOMAIN replay.joker_impacts)
       /\ (Visit.correct_answer /\ OwnTheme(Visit) /\ GamblesOn(Visit) = {}
             /\ RoundUsages(Visit) # {} /\ RoundUsages(Visit) = OnRound(Visit, "x2"))
            => \A u \in OnRound(Visit, "x2"), p \in Players :
                 Credited(u, p) = IF p = Answerer(Visit) THEN Visit.question_points ELSE 0]_vars

\* C29: the finished state is terminal for the board.  In every reachable
\* state the number of resolved cells of the game is at most
\* floor(total_cells / player_count) x player_count, and no step resolves a
\* cell of a game that is marked finished.
C29_FinishedIsTerminal ==
  /\ [](Cardinality(Resolved) <= FullRotations)
  /\ [][db.game[PlayedGameId].finished => Resolved' = Resolved]_vars

\* Rounds of the game played that no cell references.
PendingRounds == {r \in Rounds : CellsOfRound(r) = {}}

BelowThreshold == Cardinality(Resolved) < FullRotations

\* C30: turn progress. Between requests, a game that has not reached its
\* end-of-game threshold has exactly one pending round, and a successful
\* get_game_state returns that round as the current turn.
C30_TurnProgress ==
  /\ [](inflight = Idle /\ BelowThreshold => Cardinality(PendingRounds) = 1)
  /\ [][(inflight' = Idle /\ BelowThreshold' /\ last'.op = "get_game_state" /\ last'.res = "ok")
          => last'.id \in PendingRounds']_vars

====
